---- MODULE Spec2Model ----
(***************************************************************************)
(* Software renderer of LearnC (Renderer/src/renderer.c): framebuffer,     *)
(* pixel write with alpha blend, 2D rasterizer.                            *)
(*                                                                         *)
(* A 32-bit pixel word 0xAARRGGBB is kept as its four bytes, most          *)
(* significant first: <<a, r, g, b>>.  Single-precision arithmetic is      *)
(* computed with integers: a float is [s, m, e], value (-1)^s * m * 2^e,   *)
(* with 2^23 <= m < 2^24, or m = 0 for zero; every result is rounded to    *)
(* nearest, ties to even, as IEEE-754 binary32 does.                       *)
(***************************************************************************)
EXTENDS Integers, Sequences, FiniteSets, TLC

\* ---------------------------------------------------------------- bounds
MaxWidth == 4
MaxHeight == 3
MaxCalls == 3
Margin == 1
Far == 1000
MaxLineSteps == 40
MaxThickness == 3
MaxText == 3
MaxScale == 2
MaxEntry == 3
MaxEvents == 2
MaxCleanups == 2

\* ------------------------------------------------------ binary32 helpers
\* number of bits of n >= 0
BitLen4(n) == IF n < 4 THEN (IF n < 2 THEN n ELSE 2) ELSE (IF n < 8 THEN 3 ELSE 4)

BitLen8(n) == IF n < 16 THEN BitLen4(n) ELSE 4 + BitLen4(n \div 16)

BitLen16(n) == IF n < 256 THEN BitLen8(n) ELSE 8 + BitLen8(n \div 256)

BitLen(n) == IF n < 65536 THEN BitLen16(n) ELSE 16 + BitLen16(n \div 65536)

Abs(n) == IF n < 0 THEN -n ELSE n

F32Zero == [s |-> 0, m |-> 0, e |-> 0]

\* round q (with remainder r out of 2^sh dropped bits) to nearest, ties to even
RoundUp(q, r, half) == IF r > half \/ (r = half /\ q % 2 = 1) THEN 1 ELSE 0

Normal(s, q, e) == IF q = 2^24 THEN [s |-> s, m |-> 2^23, e |-> e + 1]
                   ELSE [s |-> s, m |-> q, e |-> e]

\* the float nearest to (-1)^s * T * 2^e, for an integer 0 <= T < 2^31
F32Round(s, T, e) ==
    IF T = 0 THEN F32Zero
    ELSE LET bl == BitLen(T) IN
         IF bl <= 24 THEN [s |-> s, m |-> T * 2^(24 - bl), e |-> e - (24 - bl)]
         ELSE LET sh == bl - 24
                  q  == T \div 2^sh
                  r  == T % 2^sh
              IN Normal(s, q + RoundUp(q, r, 2^(sh - 1)), e + sh)

\* (float)n for an int n
F32FromInt(n) == F32Round(IF n < 0 THEN 1 ELSE 0, Abs(n), 0)

\* x / y in binary32 (y # 0): the quotient of the mantissas by long division,
\* seven bits at a time, to 28 fraction bits and a sticky bit
F32Div(x, y) ==
    IF x.m = 0 THEN F32Zero
    ELSE LET q0 == IF x.m >= y.m THEN 1 ELSE 0
             r0 == x.m - q0 * y.m
             q1 == (r0 * 128) \div y.m
             r1 == (r0 * 128) % y.m
             q2 == (r1 * 128) \div y.m
             r2 == (r1 * 128) % y.m
             q3 == (r2 * 128) \div y.m
             r3 == (r2 * 128) % y.m
             q4 == (r3 * 128) \div y.m
             r4 == (r3 * 128) % y.m
             Q  == q0 * 2^28 + q1 * 2^21 + q2 * 2^14 + q3 * 2^7 + q4
             drop == IF q0 = 1 THEN 32 ELSE 16
             q   == Q \div drop
             rem == 2 * (Q % drop) + (IF r4 = 0 THEN 0 ELSE 1)
         IN Normal((x.s + y.s) % 2, q + RoundUp(q, rem, drop),
                   x.e - y.e - (IF q0 = 1 THEN 23 ELSE 24))

\* x * y in binary32: the 48-bit product of the mantissas from their 12-bit
\* halves, as hi * 2^24 + lo
F32Mul(x, y) ==
    IF x.m = 0 \/ y.m = 0 THEN F32Zero
    ELSE LET a1  == x.m \div 4096
             a0  == x.m % 4096
             b1  == y.m \div 4096
             b0  == y.m % 4096
             mid == a1 * b0 + a0 * b1
             low == (mid % 4096) * 4096 + a0 * b0
             hi  == a1 * b1 + (mid \div 4096) + (low \div 2^24)
             lo  == low % 2^24
             s   == (x.s + y.s) % 2
         IN IF hi >= 2^23
            THEN Normal(s, hi + RoundUp(hi, lo, 2^23), x.e + y.e + 24)
            ELSE LET q == 2 * hi + (lo \div 2^23)
                 IN Normal(s, q + RoundUp(q, lo % 2^23, 2^22), x.e + y.e + 23)

\* one step of the digit-by-digit square root: the next two bits of M (zero
\* once i is negative) are brought down to the remainder r of the root q
RECURSIVE sqrt_digits(_, _, _, _)
sqrt_digits(M, q, r, i) ==
    IF i < -13 THEN [q |-> q, r |-> r]
    ELSE LET pair == IF i >= 0 THEN (M \div 4^i) % 4 ELSE 0
             r2   == 4 * r + pair
             try  == 4 * q + 1
         IN IF r2 >= try THEN sqrt_digits(M, 2 * q + 1, r2 - try, i - 1)
            ELSE sqrt_digits(M, 2 * q, r2, i - 1)

\* sqrtf(x) for x >= 0, correctly rounded
F32Sqrt(x) ==
    IF x.m = 0 THEN F32Zero
    ELSE LET odd == x.e % 2 = 1
             M   == IF odd THEN 2 * x.m ELSE x.m
             E   == IF odd THEN x.e - 1 ELSE x.e
             d   == sqrt_digits(M, 0, 0, 12)
             big == d.q >= 2^25
             drop == IF big THEN 4 ELSE 2
             q   == d.q \div drop
             rem == 2 * (d.q % drop) + (IF d.r = 0 THEN 0 ELSE 1)
         IN Normal(0, q + RoundUp(q, rem, drop),
                   (E \div 2) - 13 + (IF big THEN 2 ELSE 1))

\* x + y in binary32 (four guard bits, the lowest one sticky)
F32Add(x, y) ==
    IF x.m = 0 THEN y
    ELSE IF y.m = 0 THEN x
    ELSE LET swap == x.e < y.e \/ (x.e = y.e /\ x.m < y.m)
             a  == IF swap THEN y ELSE x
             b  == IF swap THEN x ELSE y
             d  == a.e - b.e
         IN IF d > 25 THEN a
            ELSE LET Yf == b.m * 16
                     Yq == Yf \div 2^d
                     Yj == IF Yf % 2^d # 0 THEN Yq + 1 - (Yq % 2) ELSE Yq
                     S  == IF a.s = b.s THEN a.m * 16 + Yj ELSE a.m * 16 - Yj
                 IN F32Round(a.s, S, a.e - 4)

F32Neg(x) == IF x.m = 0 THEN x ELSE [x EXCEPT !.s = 1 - @]

F32Sub(x, y) == F32Add(x, F32Neg(y))

\* (int)x : truncation toward zero
F32ToInt(x) ==
    IF x.m = 0 THEN 0
    ELSE LET v == IF x.e >= 0 THEN x.m * 2^x.e
                  ELSE IF -x.e > 24 THEN 0
                  ELSE x.m \div 2^(-x.e)
         IN IF x.s = 1 THEN -v ELSE v

\* (uint8_t)x
F32ToU8(x) == F32ToInt(x) % 256

\* ------------------------------------------------------------- pixel words
\* (a << 24) | (r << 16) | (g << 8) | b
PackARGB(a, r, g, b) == <<a, r, g, b>>

\* (word >> sh) & 0xFF for sh in {24, 16, 8, 0}
ByteAt(word, sh) == word[4 - (sh \div 8)]

color_make(r, g, b, a) == [r |-> r, g |-> g, b |-> b, a |-> a]

\* a byte of memory that malloc returned and the program has not written: it
\* stands for every value 0..255, and so does whatever is computed from it
Indeterminate == 0 - 1

\* the word of four such bytes
Unwritten == PackARGB(Indeterminate, Indeterminate, Indeterminate, Indeterminate)

\* ------------------------------------------------------------------ state
VARIABLES
    width,        \* rend->width
    height,       \* rend->height
    framebuffer,  \* rend->framebuffer[0 .. width*height-1]
    wild,         \* indices outside the allocation that were stored to
    op,           \* name of the last operation
    args,         \* its integer arguments
    color,        \* its color argument
    trace,        \* the (x, y) it passed to renderer_draw_pixel, in order
    before,       \* the framebuffer before it
    aux,          \* what else it computed (divisors, termination)
    clear_color,  \* color of the last renderer_clear
    painted,      \* per pixel: color of the last call that covered it
    opaque_only,  \* a clear to an opaque color happened, only opaque draws since
    ncalls,       \* calls made so far
    disk,         \* the file image_load_bmp is given: absent, or its bytes
    image,        \* the Image* the caller holds (a NULL flag, width, height, pixels)
    heap,         \* blocks that were malloc'ed and not freed
    open_files,   \* FILE handles that were opened and not closed
    build,        \* which half of the #ifdef _WIN32 was compiled: "x11" or "win32"
    rend,         \* the window-system fields of the Renderer: 0 is NULL, 1 a handle
    rend0,        \* those fields as they were when renderer_init was last entered
    is_running,   \* rend->is_running
    g_renderer,   \* the static g_renderer points to the Renderer
    live,         \* window-system resources that are acquired and not released
    releases,     \* per resource: release calls since renderer_init was entered
    cleanups,     \* renderer_cleanup calls since renderer_init was entered
    crashed,      \* a release of a dead resource ended the process
    events,       \* the events queued for the window, oldest first
    pc,           \* where main is; "lib" when the library is called directly
    history       \* main: the library calls since the loop condition was last tested

vars == <<width, height, framebuffer, wild, op, args, color, trace, before,
          aux, clear_color, painted, opaque_only, ncalls, disk, image, heap,
          open_files, build, rend, rend0, is_running, g_renderer, live,
          releases, cleanups, crashed, events, pc, history>>

loader == <<disk, image, heap, open_files>>

platform == <<build, rend, rend0, is_running, g_renderer, live, releases,
              cleanups, crashed, events, pc, history>>

Mem == [fb |-> framebuffer, wild |-> wild]

\* a store through rend->framebuffer[index]
Store(mem, index, word) ==
    IF index \in DOMAIN mem.fb THEN [mem EXCEPT !.fb[index] = word]
    ELSE [mem EXCEPT !.wild = @ \cup {index}]

\* a load through rend->framebuffer[index]; outside the allocation: some word
Load(mem, index) ==
    IF index \in DOMAIN mem.fb THEN mem.fb[index] ELSE PackARGB(0, 0, 0, 0)

\* blend_channel with the two weights exchanged
blend_channel_weights_swapped(src, dst, a) ==
    LET alpha == F32Div(F32FromInt(a), F32FromInt(255))
    IN F32ToU8(F32Add(F32Mul(F32FromInt(dst), alpha),
                      F32Mul(F32FromInt(src), F32Sub(F32FromInt(1), alpha))))

\* (uint8_t)(src * alpha + dst * (1 - alpha)) with float alpha = a / 255.0f;
\* with alpha 0 the source is multiplied by zero, whatever it is
blend_channel(src, dst, a) ==
    IF dst = Indeterminate \/ a = Indeterminate \/ (src = Indeterminate /\ a # 0)
    THEN Indeterminate
    ELSE LET alpha == F32Div(F32FromInt(a), F32FromInt(255))
             known == IF src = Indeterminate THEN 0 ELSE src
         IN F32ToU8(F32Add(F32Mul(F32FromInt(known), alpha),
                           F32Mul(F32FromInt(dst), F32Sub(F32FromInt(1), alpha))))

\* write_pixel whose blended word carries the alpha of the color drawn
write_pixel_source_alpha(mem, w, x, y, c) ==
    LET index == y * w + x
        pixel == Load(mem, index)
    IN Store(mem, index,
             IF c.a = 255 THEN PackARGB(c.a, c.r, c.g, c.b)
             ELSE PackARGB(c.a,
                           blend_channel(c.r, ByteAt(pixel, 16), c.a),
                           blend_channel(c.g, ByteAt(pixel, 8), c.a),
                           blend_channel(c.b, ByteAt(pixel, 0), c.a)))

\* the store of renderer_draw_pixel, once (x, y) has passed the bounds test
write_pixel(mem, w, x, y, c) ==
    LET index == y * w + x
        pixel == Load(mem, index)
    IN IF c.a = 255
       THEN Store(mem, index, PackARGB(c.a, c.r, c.g, c.b))
       ELSE Store(mem, index,
                  PackARGB(255,
                           blend_channel(c.r, ByteAt(pixel, 16), c.a),
                           blend_channel(c.g, ByteAt(pixel, 8), c.a),
                           blend_channel(c.b, ByteAt(pixel, 0), c.a)))

\* renderer_draw_pixel without the x >= width test
draw_pixel_no_right_edge(mem, w, h, x, y, c) ==
    IF x < 0 \/ y < 0 \/ y >= h THEN mem ELSE write_pixel(mem, w, x, y, c)

\* renderer_draw_pixel whose opaque path leaves the alpha byte out of the word
draw_pixel_no_alpha_byte(mem, w, h, x, y, c) ==
    IF x < 0 \/ x >= w \/ y < 0 \/ y >= h THEN mem
    ELSE IF c.a = 255 THEN Store(mem, y * w + x, PackARGB(0, c.r, c.g, c.b))
    ELSE write_pixel(mem, w, x, y, c)

\* renderer_draw_pixel that skips a pixel already written opaque (a depth
\* test that lets the first writer win)
draw_pixel_first_wins(mem, w, h, x, y, c) ==
    IF x < 0 \/ x >= w \/ y < 0 \/ y >= h THEN mem
    ELSE IF Load(mem, y * w + x) \in {PackARGB(255, 255, 0, 0), PackARGB(255, 250, 160, 20)}
    THEN mem
    ELSE write_pixel(mem, w, x, y, c)

renderer_draw_pixel(mem, w, h, x, y, c) ==
    IF x < 0 \/ x >= w \/ y < 0 \/ y >= h THEN mem ELSE write_pixel(mem, w, x, y, c)

\* ------------------------------------------------------------- primitives
\* the calls a primitive makes to renderer_draw_pixel, applied in order
\* (the first half of the calls, then the second half on what it left)
RECURSIVE Paint(_, _, _, _, _)
Paint(mem, w, h, calls, c) ==
    IF Len(calls) = 0 THEN mem
    ELSE IF Len(calls) = 1
    THEN renderer_draw_pixel(mem, w, h, calls[1][1], calls[1][2], c)
    ELSE LET half == Len(calls) \div 2
             first == Paint(mem, w, h, SubSeq(calls, 1, half), c)
         IN IF first = mem THEN Paint(mem, w, h, SubSeq(calls, half + 1, Len(calls)), c)
            ELSE Paint(first, w, h, SubSeq(calls, half + 1, Len(calls)), c)

\* renderer_clear: one word stored at every index below width * height
RECURSIVE clear_loop(_, _, _, _)
clear_loop(mem, i, n, word) ==
    IF i < n THEN clear_loop(Store(mem, i, word), i + 1, n, word) ELSE mem

\* renderer_clear that fills through renderer_draw_pixel, so that it blends
clear_by_draw_pixel(mem, w, h, c) ==
    Paint(mem, w, h, [k \in 1..(w * h) |-> <<(k - 1) % w, (k - 1) \div w>>], c)

renderer_clear(mem, w, h, c) ==
    clear_loop(mem, 0, w * h, PackARGB(c.a, c.r, c.g, c.b))

\* renderer_draw_rect whose bottom edge is drawn at y + h
draw_rect_calls_low_bottom(x, y, w, h) ==
    [k \in 1..(2 * (IF w > 0 THEN w ELSE 0)) |->
        IF k % 2 = 1 THEN <<x + ((k - 1) \div 2), y>>
        ELSE <<x + ((k - 1) \div 2), y + h>>]
    \o [k \in 1..(2 * (IF h > 0 THEN h ELSE 0)) |->
        IF k % 2 = 1 THEN <<x, y + ((k - 1) \div 2)>>
        ELSE <<x + w - 1, y + ((k - 1) \div 2)>>]

\* for i in [0,w): draw_pixel(x+i, y), draw_pixel(x+i, y+h-1);
\* for i in [0,h): draw_pixel(x, y+i), draw_pixel(x+w-1, y+i)
draw_rect_calls(x, y, w, h) ==
    [k \in 1..(2 * (IF w > 0 THEN w ELSE 0)) |->
        IF k % 2 = 1 THEN <<x + ((k - 1) \div 2), y>>
        ELSE <<x + ((k - 1) \div 2), y + h - 1>>]
    \o [k \in 1..(2 * (IF h > 0 THEN h ELSE 0)) |->
        IF k % 2 = 1 THEN <<x, y + ((k - 1) \div 2)>>
        ELSE <<x + w - 1, y + ((k - 1) \div 2)>>]

\* draw_filled_rect with i <= w for i < w
filled_rect_calls_off_by_one(x, y, w, h) ==
    IF w < 0 \/ h <= 0 THEN <<>>
    ELSE [k \in 1..((w + 1) * h) |-> <<x + ((k - 1) % (w + 1)), y + ((k - 1) \div (w + 1))>>]

\* for j in [0,h) for i in [0,w): draw_pixel(x + i, y + j)
draw_filled_rect_calls(x, y, w, h) ==
    IF w <= 0 \/ h <= 0 THEN <<>>
    ELSE [k \in 1..(w * h) |-> <<x + ((k - 1) % w), y + ((k - 1) \div w)>>]

\* draw_filled_circle with x*x + y*y < radius*radius
filled_circle_calls_strict(cx, cy, radius) ==
    IF radius < 0 THEN <<>>
    ELSE LET side == 2 * radius + 1
             cell(k) == <<((k - 1) % side) - radius, ((k - 1) \div side) - radius>>
             inside(p) == p[1] * p[1] + p[2] * p[2] < radius * radius
             all == [k \in 1..(side * side) |-> cell(k)]
             hit == SelectSeq(all, inside)
         IN [k \in 1..Len(hit) |-> <<cx + hit[k][1], cy + hit[k][2]>>]

\* for y in [-radius,radius] for x in [-radius,radius]: if inside, draw_pixel
draw_filled_circle_calls(cx, cy, radius) ==
    IF radius < 0 THEN <<>>
    ELSE LET side == 2 * radius + 1
             cell(k) == <<((k - 1) % side) - radius, ((k - 1) \div side) - radius>>
             inside(p) == p[1] * p[1] + p[2] * p[2] <= radius * radius
             all == [k \in 1..(side * side) |-> cell(k)]
             hit == SelectSeq(all, inside)
         IN [k \in 1..Len(hit) |-> <<cx + hit[k][1], cy + hit[k][2]>>]

\* one pass of the loop of renderer_draw_line with "else if (e2 < dx)":
\* never both steps
line_pass_else_if(st, x2, y2, dx, dy, sx, sy) ==
    IF st.done THEN st
    ELSE LET calls == Append(st.calls, <<st.x1, st.y1>>) IN
         IF st.x1 = x2 /\ st.y1 = y2
         THEN [x1 |-> st.x1, y1 |-> st.y1, err |-> st.err, calls |-> calls, done |-> TRUE]
         ELSE LET e2    == 2 * st.err
                  stepx == e2 > -dy
                  stepy == ~stepx /\ e2 < dx
              IN [x1 |-> IF stepx THEN st.x1 + sx ELSE st.x1,
                  y1 |-> IF stepy THEN st.y1 + sy ELSE st.y1,
                  err |-> IF stepx THEN st.err - dy ELSE IF stepy THEN st.err + dx ELSE st.err,
                  calls |-> calls, done |-> FALSE]

\* one pass of the while (1) loop of renderer_draw_line: st holds x1, y1 and
\* err, the calls made so far, and whether the loop has been left by break
line_pass(st, x2, y2, dx, dy, sx, sy) ==
    IF st.done THEN st
    ELSE LET calls == Append(st.calls, <<st.x1, st.y1>>) IN
         IF st.x1 = x2 /\ st.y1 = y2
         THEN [x1 |-> st.x1, y1 |-> st.y1, err |-> st.err, calls |-> calls, done |-> TRUE]
         ELSE LET e2   == 2 * st.err
                  errx == IF e2 > -dy THEN st.err - dy ELSE st.err
                  nx   == IF e2 > -dy THEN st.x1 + sx ELSE st.x1
                  erry == IF e2 < dx THEN errx + dx ELSE errx
                  ny   == IF e2 < dx THEN st.y1 + sy ELSE st.y1
              IN [x1 |-> nx, y1 |-> ny, err |-> erry, calls |-> calls, done |-> FALSE]

\* the first passes of the loop (the first half of them, then the rest on
\* what they left)
RECURSIVE line_loop(_, _, _, _, _, _, _, _)
line_loop(st, x2, y2, dx, dy, sx, sy, passes) ==
    IF passes <= 0 THEN st
    ELSE IF passes = 1 THEN line_pass(st, x2, y2, dx, dy, sx, sy)
    ELSE CHOOSE r \in {line_loop(half, x2, y2, dx, dy, sx, sy, passes - (passes \div 2)) :
                          half \in {line_loop(st, x2, y2, dx, dy, sx, sy, passes \div 2)}} :
             TRUE

\* the calls of the passes, and whether the loop was left within them
line_calls(x1, y1, x2, y2, dx, dy, sx, sy, passes) ==
    CHOOSE r \in {[calls |-> st.calls, done |-> st.done] :
                     st \in {line_loop([x1 |-> x1, y1 |-> y1, err |-> dx - dy,
                                        calls |-> <<>>, done |-> FALSE],
                                       x2, y2, dx, dy, sx, sy, passes)}} : TRUE

\* renderer_draw_line stopped after the given number of passes of its loop
draw_line_within(x1, y1, x2, y2, passes) ==
    LET dx == Abs(x2 - x1)
        dy == Abs(y2 - y1)
        sx == IF x1 < x2 THEN 1 ELSE -1
        sy == IF y1 < y2 THEN 1 ELSE -1
    IN line_calls(x1, y1, x2, y2, dx, dy, sx, sy, passes)

\* renderer_draw_line that first orders its endpoints from left to right
draw_line_left_to_right(x1, y1, x2, y2) ==
    LET swap == x1 > x2 \/ (x1 = x2 /\ y1 > y2)
        ax == IF swap THEN x2 ELSE x1
        ay == IF swap THEN y2 ELSE y1
        bx == IF swap THEN x1 ELSE x2
        by == IF swap THEN y1 ELSE y2
        dx == Abs(bx - ax)
        dy == Abs(by - ay)
        sx == IF ax < bx THEN 1 ELSE -1
        sy == IF ay < by THEN 1 ELSE -1
    IN line_calls(ax, ay, bx, by, dx, dy, sx, sy, MaxLineSteps + 1)

\* at most MaxLineSteps steps: a line that never reaches its end takes more
renderer_draw_line(x1, y1, x2, y2) == draw_line_within(x1, y1, x2, y2, MaxLineSteps + 1)

\* a / b of two ints: the quotient truncated toward zero
CDiv(a, b) ==
    IF (a >= 0) = (b > 0) THEN Abs(a) \div Abs(b) ELSE -(Abs(a) \div Abs(b))

\* one iteration of the loop of renderer_draw_thick_line that is not skipped:
\* the endpoints it passes to renderer_draw_line
thick_line_copy(x1, y1, x2, y2, t) ==
    LET dx  == y2 - y1
        dy  == x2 - x1
        len == F32Sqrt(F32FromInt(dx * dx + dy * dy))
        ox  == F32ToInt(F32Div(F32FromInt(t * dx), len))
        oy  == F32ToInt(F32Div(F32FromInt((-t) * dy), len))
    IN <<x1 + ox, y1 + oy, x2 + ox, y2 + oy>>

\* for (t = -thickness/2; t <= thickness/2; t++): the draw_line calls made
thick_line_copies(x1, y1, x2, y2, thickness) ==
    LET first == CDiv(-thickness, 2)
        last  == CDiv(thickness, 2)
        dx    == y2 - y1
        dy    == x2 - x1
        len   == F32Sqrt(F32FromInt(dx * dx + dy * dy))
    IN IF len.m = 0 THEN <<>>
       ELSE [k \in 1..(last - first + 1) |-> thick_line_copy(x1, y1, x2, y2, first + k - 1)]

\* the draw_pixel calls of a sequence of draw_line calls, in order
RECURSIVE lines_calls(_)
lines_calls(lines) ==
    IF lines = <<>> THEN <<>>
    ELSE renderer_draw_line(Head(lines)[1], Head(lines)[2],
                            Head(lines)[3], Head(lines)[4]).calls
         \o lines_calls(Tail(lines))

renderer_draw_thick_line(x1, y1, x2, y2, thickness) ==
    LET lines == thick_line_copies(x1, y1, x2, y2, thickness)
    IN [lines |-> lines, calls |-> lines_calls(lines)]

\* the ordering without its third swap: the last two vertices stay as they are
sort_by_y_two_swaps(v) ==
    LET a == IF v[1][2] > v[2][2] THEN <<v[2], v[1], v[3]>> ELSE v
    IN IF a[1][2] > a[3][2] THEN <<a[3], a[2], a[1]>> ELSE a

\* the three conditional swaps that order the vertices by y
sort_by_y(v) ==
    LET a == IF v[1][2] > v[2][2] THEN <<v[2], v[1], v[3]>> ELSE v
        b == IF a[1][2] > a[3][2] THEN <<a[3], a[2], a[1]>> ELSE a
    IN IF b[2][2] > b[3][2] THEN <<b[1], b[3], b[2]>> ELSE b

\* x0 + (x1 - x0) * t, converted to int
lerp_int(x0, x1, t) == F32ToInt(F32Add(F32FromInt(x0), F32Mul(F32FromInt(x1 - x0), t)))

\* the span with x < xb as the loop test: the right end is left out
span_calls_half_open(xa, xb, y) ==
    [k \in 1..Abs(xb - xa) |-> <<(IF xa > xb THEN xb ELSE xa) + k - 1, y>>]

\* if (xa > xb) swap; for (x = xa; x <= xb; x++) draw_pixel(x, y)
span_calls(xa, xb, y) ==
    [k \in 1..(Abs(xb - xa) + 1) |-> <<(IF xa > xb THEN xb ELSE xa) + k - 1, y>>]

\* the body of one scanline once it is not skipped: the two divisions, the
\* two interpolations, the swap and the span; a zero divisor is recorded and
\* no span is computed from it
scanline_body(v, y) ==
    LET x1 == v[1][1]  y1 == v[1][2]
        x2 == v[2][1]  y2 == v[2][2]
        x3 == v[3][1]  y3 == v[3][2]
        total_height   == y3 - y1
        second_half    == y > y2 \/ y2 = y1
        segment_height == IF second_half THEN y3 - y2 ELSE y2 - y1
        div == [y |-> y, total |-> total_height, segment |-> segment_height]
    IN IF total_height = 0 \/ segment_height = 0
       THEN [calls |-> <<>>, divs |-> <<div>>]
       ELSE LET alpha == F32Div(F32FromInt(y - y1), F32FromInt(total_height))
                beta  == F32Div(F32FromInt(y - (IF second_half THEN y2 ELSE y1)),
                                F32FromInt(segment_height))
                xa == lerp_int(x1, x3, alpha)
                xb == IF second_half THEN lerp_int(x2, x3, beta)
                      ELSE lerp_int(x1, x2, beta)
            IN [calls |-> span_calls(xa, xb, y), divs |-> <<div>>]

\* one iteration of the scanline loop of renderer_draw_filled_triangle
triangle_scanline(v, y) ==
    LET second_half    == y > v[2][2] \/ v[2][2] = v[1][2]
        segment_height == IF second_half THEN v[3][2] - v[2][2] ELSE v[2][2] - v[1][2]
    IN IF segment_height = 0 THEN [calls |-> <<>>, divs |-> <<>>]
       ELSE scanline_body(v, y)

\* for (y = y1; y <= y3; y++): what each iteration did, in order
RECURSIVE triangle_loop(_, _)
triangle_loop(v, y) ==
    IF y > v[3][2] THEN <<>>
    ELSE <<triangle_scanline(v, y)>> \o triangle_loop(v, y + 1)

RECURSIVE unguarded_loop(_, _)
unguarded_loop(v, y) ==
    IF y > v[3][2] THEN <<>>
    ELSE <<scanline_body(v, y)>> \o unguarded_loop(v, y + 1)

RECURSIVE all_calls(_)
all_calls(rows) ==
    IF rows = <<>> THEN <<>> ELSE Head(rows).calls \o all_calls(Tail(rows))

RECURSIVE all_divs(_)
all_divs(rows) ==
    IF rows = <<>> THEN <<>> ELSE Head(rows).divs \o all_divs(Tail(rows))

\* renderer_draw_filled_triangle without its two zero-height tests
filled_triangle_unguarded(p1, p2, p3) ==
    LET v    == sort_by_y(<<p1, p2, p3>>)
        rows == unguarded_loop(v, v[1][2])
    IN [calls |-> all_calls(rows), divs |-> all_divs(rows)]

\* the draw_pixel calls of renderer_draw_filled_triangle and its divisors
renderer_draw_filled_triangle(p1, p2, p3) ==
    LET v    == sort_by_y(<<p1, p2, p3>>)
        rows == IF v[3][2] - v[1][2] = 0 THEN <<>> ELSE triangle_loop(v, v[1][2])
    IN [calls |-> all_calls(rows), divs |-> all_divs(rows)]

\* a % b of two ints (b > 0): the remainder of the truncated quotient
CRem(a, b) == a - b * CDiv(a, b)

\* tex_x = (int)(u * size) % size; if (tex_x < 0) tex_x += size, without the
\* correction of a negative remainder
tex_index_uncorrected(u, size) ==
    CRem(F32ToInt(F32Mul(u, F32FromInt(size))), size)

\* tex_x = (int)(u * size) % size; if (tex_x < 0) tex_x += size
tex_index(u, size) ==
    LET i == CRem(F32ToInt(F32Mul(u, F32FromInt(size))), size)
    IN IF i < 0 THEN i + size ELSE i

\* texture->pixels[index]; outside the grid: some word
texel(texture, index) ==
    IF index \in DOMAIN texture.pixels THEN texture.pixels[index]
    ELSE PackARGB(0, 0, 0, 0)

\* a + (b - a) * t on floats
lerp_float(a, b, t) == F32Add(a, F32Mul(F32Sub(b, a), t))

\* the body of the inner loop of renderer_draw_textured_triangle for one x
texture_sample(texture, x, y, xa, xb, ua, ub, va, vb) ==
    LET t == IF xb - xa > 0 THEN F32Div(F32FromInt(x - xa), F32FromInt(xb - xa))
             ELSE F32Zero
        u == lerp_float(ua, ub, t)
        v == lerp_float(va, vb, t)
        tex_x == tex_index(u, texture.width)
        tex_y == tex_index(v, texture.height)
        pixel == texel(texture, tex_y * texture.width + tex_x)
    IN [x |-> x, y |-> y, u |-> u, v |-> v, tex_x |-> tex_x, tex_y |-> tex_y,
        color |-> color_make(ByteAt(pixel, 16), ByteAt(pixel, 8),
                             ByteAt(pixel, 0), ByteAt(pixel, 24))]

\* one iteration of the scanline loop of renderer_draw_textured_triangle;
\* p is the three vertices <<x, y, u, v>> ordered by y
textured_scanline(texture, p, y) ==
    LET total_height   == p[3][2] - p[1][2]
        second_half    == y > p[2][2] \/ p[2][2] = p[1][2]
        segment_height == IF second_half THEN p[3][2] - p[2][2] ELSE p[2][2] - p[1][2]
    IN IF segment_height = 0 THEN <<>>
       ELSE LET alpha == F32Div(F32FromInt(y - p[1][2]), F32FromInt(total_height))
                beta  == F32Div(F32FromInt(y - (IF second_half THEN p[2][2] ELSE p[1][2])),
                                F32FromInt(segment_height))
                from  == IF second_half THEN p[2] ELSE p[1]
                to    == IF second_half THEN p[3] ELSE p[2]
                xa == lerp_int(p[1][1], p[3][1], alpha)
                xb == lerp_int(from[1], to[1], beta)
                ua == lerp_float(p[1][3], p[3][3], alpha)
                va == lerp_float(p[1][4], p[3][4], alpha)
                ub == lerp_float(from[3], to[3], beta)
                vb == lerp_float(from[4], to[4], beta)
                swap == xa > xb
                lo == IF swap THEN xb ELSE xa
                hi == IF swap THEN xa ELSE xb
            IN [k \in 1..(hi - lo + 1) |->
                   texture_sample(texture, lo + k - 1, y, lo, hi,
                                  IF swap THEN ub ELSE ua, IF swap THEN ua ELSE ub,
                                  IF swap THEN vb ELSE va, IF swap THEN va ELSE vb)]

RECURSIVE textured_loop(_, _, _)
textured_loop(texture, p, y) ==
    IF y > p[3][2] THEN <<>>
    ELSE textured_scanline(texture, p, y) \o textured_loop(texture, p, y + 1)

\* the samples renderer_draw_textured_triangle takes and draws, in order
renderer_draw_textured_triangle(p1, p2, p3, texture) ==
    IF texture.null THEN <<>>
    ELSE LET p == sort_by_y(<<p1, p2, p3>>)
         IN IF p[3][2] - p[1][2] = 0 THEN <<>>
            ELSE textured_loop(texture, p, p[1][2])

\* renderer_draw_pixel for each sample with the color sampled for it
RECURSIVE paint_samples(_, _, _, _)
paint_samples(mem, w, h, samples) ==
    IF samples = <<>> THEN mem
    ELSE paint_samples(renderer_draw_pixel(mem, w, h, Head(samples).x, Head(samples).y,
                                           Head(samples).color),
                       w, h, Tail(samples))

\* the calls of samples applied in order, each with its own color (the first
\* half of the samples, then the second half on what it left)
RECURSIVE paint_colors(_, _, _, _)
paint_colors(mem, w, h, samples) ==
    IF Len(samples) = 0 THEN mem
    ELSE IF Len(samples) = 1
    THEN renderer_draw_pixel(mem, w, h, samples[1].x, samples[1].y, samples[1].color)
    ELSE LET half == Len(samples) \div 2
             first == paint_colors(mem, w, h, SubSeq(samples, 1, half))
         IN IF first = mem THEN paint_colors(mem, w, h, SubSeq(samples, half + 1, Len(samples)))
            ELSE paint_colors(first, w, h, SubSeq(samples, half + 1, Len(samples)))

\* the calls of a primitive that draws in one color, as samples
colored(calls, c) == [k \in 1..Len(calls) |-> [x |-> calls[k][1], y |-> calls[k][2], color |-> c]]

\* the eight renderer_draw_pixel calls of one pass of the loop of
\* renderer_draw_circle
circle_octants(cx, cy, x, y) ==
    <<<<cx + x, cy + y>>, <<cx + y, cy + x>>, <<cx - y, cy + x>>, <<cx - x, cy + y>>,
      <<cx - x, cy - y>>, <<cx - y, cy - x>>, <<cx + y, cy - x>>, <<cx + x, cy - y>>>>

\* while (x >= y) { eight pixels; if (err <= 0) { y += 1; err += 2*y + 1; }
\*                  if (err > 0) { x -= 1; err -= 2*x + 1; } }
RECURSIVE circle_loop(_, _, _, _, _)
circle_loop(cx, cy, x, y, err) ==
    IF x < y THEN <<>>
    ELSE LET y2 == IF err <= 0 THEN y + 1 ELSE y
             e2 == IF err <= 0 THEN err + 2 * y2 + 1 ELSE err
             x2 == IF e2 > 0 THEN x - 1 ELSE x
             e3 == IF e2 > 0 THEN e2 - (2 * x2 + 1) ELSE e2
         IN circle_octants(cx, cy, x, y) \o circle_loop(cx, cy, x2, y2, e3)

\* the calls of renderer_draw_circle: int x = radius, y = 0, err = 0
renderer_draw_circle(cx, cy, radius) == circle_loop(cx, cy, radius, 0, 0)

\* renderer_draw_triangle: three renderer_draw_line, the next one started
\* when the one before it has returned
renderer_draw_triangle(x1, y1, x2, y2, x3, y3) ==
    LET a == renderer_draw_line(x1, y1, x2, y2)
        b == renderer_draw_line(x2, y2, x3, y3)
        c == renderer_draw_line(x3, y3, x1, y1)
    IN IF ~a.done THEN [calls |-> a.calls, lines |-> <<a.calls>>, done |-> FALSE]
       ELSE IF ~b.done
       THEN [calls |-> a.calls \o b.calls, lines |-> <<a.calls, b.calls>>, done |-> FALSE]
       ELSE [calls |-> a.calls \o b.calls \o c.calls,
             lines |-> <<a.calls, b.calls, c.calls>>, done |-> c.done]

\* (uint8_t)(c1 + (c2 - c1) * t) for two channel values and a float t
gradient_channel(c1, c2, t) ==
    F32ToU8(F32Add(F32FromInt(c1), F32Mul(F32FromInt(c2 - c1), t)))

\* the color renderer_draw_gradient_rect computes for column i, row j
gradient_color(w, h, c1, c2, vertical, i, j) ==
    LET t == IF vertical THEN F32Div(F32FromInt(j), F32FromInt(h))
             ELSE F32Div(F32FromInt(i), F32FromInt(w))
    IN color_make(gradient_channel(c1.r, c2.r, t), gradient_channel(c1.g, c2.g, t),
                  gradient_channel(c1.b, c2.b, t), 255)

\* for j in [0,h) for i in [0,w): draw_pixel(x + i, y + j, color of (i, j))
renderer_draw_gradient_rect(x, y, w, h, c1, c2, vertical) ==
    IF w <= 0 \/ h <= 0 THEN <<>>
    ELSE [k \in 1..(w * h) |->
             [x |-> x + ((k - 1) % w), y |-> y + ((k - 1) \div w),
              color |-> gradient_color(w, h, c1, c2, vertical, (k - 1) % w, (k - 1) \div w)]]

\* Color color = { (pixel >> 16) & 0xFF, (pixel >> 8) & 0xFF, pixel & 0xFF,
\*                 (pixel >> 24) & 0xFF }
pixel_color(pixel) ==
    color_make(ByteAt(pixel, 16), ByteAt(pixel, 8), ByteAt(pixel, 0), ByteAt(pixel, 24))

\* (uint8_t)(byte * (n / 255.0f))
scale_byte(byte, n) ==
    IF n = Indeterminate \/ (byte = Indeterminate /\ n # 0) THEN Indeterminate
    ELSE F32ToU8(F32Mul(F32FromInt(IF byte = Indeterminate THEN 0 ELSE byte),
                        F32Div(F32FromInt(n), F32FromInt(255))))

\* renderer_draw_image: every pixel of the image, row by row, at (x + i, y + j)
renderer_draw_image(img, x, y) ==
    IF img.null \/ img.width <= 0 \/ img.height <= 0 THEN <<>>
    ELSE [k \in 1..(img.width * img.height) |->
             [x |-> x + ((k - 1) % img.width), y |-> y + ((k - 1) \div img.width),
              color |-> pixel_color(texel(img, k - 1))]]

\* the body of the inner loop of renderer_draw_image_ex for (i, j): nothing
\* when the source pixel is outside the image
image_ex_sample(img, x, y, scale, alpha, i, j) ==
    LET src_x == F32ToInt(F32Div(F32FromInt(i), scale))
        src_y == F32ToInt(F32Div(F32FromInt(j), scale))
        pixel == texel(img, src_y * img.width + src_x)
    IN IF src_x >= img.width \/ src_y >= img.height THEN <<>>
       ELSE <<[x |-> x + i, y |-> y + j, src_x |-> src_x, src_y |-> src_y,
               color |-> color_make(ByteAt(pixel, 16), ByteAt(pixel, 8), ByteAt(pixel, 0),
                                    scale_byte(ByteAt(pixel, 24), alpha))]>>

RECURSIVE image_ex_row(_, _, _, _, _, _, _, _)
image_ex_row(img, x, y, scale, alpha, i, j, scaled_w) ==
    IF i >= scaled_w THEN <<>>
    ELSE image_ex_sample(img, x, y, scale, alpha, i, j)
         \o image_ex_row(img, x, y, scale, alpha, i + 1, j, scaled_w)

RECURSIVE image_ex_rows(_, _, _, _, _, _, _, _)
image_ex_rows(img, x, y, scale, alpha, j, scaled_w, scaled_h) ==
    IF j >= scaled_h THEN <<>>
    ELSE image_ex_row(img, x, y, scale, alpha, 0, j, scaled_w)
         \o image_ex_rows(img, x, y, scale, alpha, j + 1, scaled_w, scaled_h)

\* renderer_draw_image_ex: scaled_w = (int)(img->width * scale), likewise
\* scaled_h; scale is a float, alpha a byte
renderer_draw_image_ex(img, x, y, scale, alpha) ==
    IF img.null THEN <<>>
    ELSE image_ex_rows(img, x, y, scale, alpha, 0,
                       F32ToInt(F32Mul(F32FromInt(img.width), scale)),
                       F32ToInt(F32Mul(F32FromInt(img.height), scale)))

\* renderer_apply_tint: the image's pixels with r, g, b scaled by the tint
renderer_apply_tint(img, x, y, tint) ==
    IF img.null \/ img.width <= 0 \/ img.height <= 0 THEN <<>>
    ELSE [k \in 1..(img.width * img.height) |->
             LET pixel == texel(img, k - 1) IN
             [x |-> x + ((k - 1) % img.width), y |-> y + ((k - 1) \div img.width),
              color |-> color_make(scale_byte(ByteAt(pixel, 16), tint.r),
                                   scale_byte(ByteAt(pixel, 8), tint.g),
                                   scale_byte(ByteAt(pixel, 0), tint.b),
                                   ByteAt(pixel, 24))]]

\* ------------------------------------------------------------- BMP files
Zeros(n) == [i \in 1..n |-> 0]

\* a byte read as a signed char
Signed8(b) == IF b >= 128 THEN b - 256 ELSE b

\* *(int*)&buf[at] on a little-endian machine
read_int(buf, at) ==
    buf[at + 1] + 256 * buf[at + 2] + 65536 * buf[at + 3] + 16777216 * Signed8(buf[at + 4])

\* *(short*)&buf[at] on a little-endian machine
read_short(buf, at) == buf[at + 1] + 256 * Signed8(buf[at + 2])

\* fread(buf, 1, n, file) with the file at offset pos: the bytes the file
\* still has replace the start of buf, the rest of buf keeps what it held
fread(buf, n, bytes, pos) ==
    LET left == Len(bytes) - pos
        got == IF left < n THEN left ELSE n
    IN [buf |-> [i \in 1..Len(buf) |-> IF i <= got THEN bytes[pos + i] ELSE buf[i]],
        pos |-> pos + got]

row_size_unpadded(bits_per_pixel, w) == CDiv(bits_per_pixel * w, 8)

row_size(bits_per_pixel, w) == CDiv(bits_per_pixel * w + 31, 32) * 4

pixel_index_unflipped(h_field, h, w, x, y) == y * w + x

pixel_index(h_field, h, w, x, y) ==
    IF h_field > 0 THEN (h - 1 - y) * w + x ELSE y * w + x

\* the word image_load_bmp builds from pixel x of a row buffer
row_pixel(row, x, bits_per_pixel) ==
    LET at == x * CDiv(bits_per_pixel, 8)
        b == row[at + 1]
        g == row[at + 2]
        r == row[at + 3]
        a == IF bits_per_pixel = 32 THEN row[x * 4 + 4] ELSE 255
    IN PackARGB(a, r, g, b)

decode_row(row, w, bits_per_pixel) == [k \in 1..w |-> row_pixel(row, k - 1, bits_per_pixel)]

\* the rows of the loop over y, in the order they are read
RECURSIVE load_rows(_, _, _, _, _, _, _)
load_rows(bytes, pos, row, y, h, w, bits_per_pixel) ==
    IF y >= h THEN <<>>
    ELSE LET rd == fread(row, Len(row), bytes, pos)
         IN <<decode_row(rd.buf, w, bits_per_pixel)>>
            \o load_rows(bytes, rd.pos, rd.buf, y + 1, h, w, bits_per_pixel)

NullImage == [null |-> TRUE, width |-> 0, height |-> 0, pixels |-> <<>>]

\* stack: what the header array holds before fread; junk: what malloc left
\* in each byte of the row buffer. malloc returns NULL for the pixel grid
\* when width * height is negative (nothing is stored through it: one of the
\* two loops is then empty); it returns NULL for the row buffer when
\* row_size is negative, and fread then copies what the file still has
\* through that NULL: fault
image_load_bmp(file, stack, junk) ==
    IF ~file.exists
    THEN [image |-> NullImage, heap |-> {}, open_files |-> 0, opened |-> FALSE,
          header |-> stack, fault |-> FALSE]
    ELSE
    LET rd == fread(stack, 54, file.bytes, 0)
        header == rd.buf
        w == read_int(header, 18)
        h_field == read_int(header, 22)
        bits_per_pixel == read_short(header, 28)
        rejected == [image |-> NullImage, heap |-> {}, open_files |-> 1 - 1,
                     opened |-> TRUE, header |-> header, fault |-> FALSE]
    IN IF header[1] # 66 \/ header[2] # 77 THEN rejected
       ELSE IF bits_per_pixel # 24 /\ bits_per_pixel # 32 THEN rejected
       ELSE
       LET h == Abs(h_field)
           row == [i \in 1..row_size(bits_per_pixel, w) |-> junk]
           rows == load_rows(file.bytes, rd.pos, row, 0, h, w, bits_per_pixel)
           stored(i) == CHOOSE p \in (0..(h - 1)) \X (0..(w - 1)) :
                            pixel_index(h_field, h, w, p[2], p[1]) = i
           no_pixels == IF w * h < 0 THEN {"pixels"} ELSE {}
       IN IF row_size(bits_per_pixel, w) < 0 /\ h > 0 /\ rd.pos < Len(file.bytes)
          THEN [image |-> NullImage, heap |-> {"Image"}, open_files |-> 1,
                opened |-> TRUE, header |-> header, fault |-> TRUE]
          ELSE [image |-> [null |-> FALSE, width |-> w, height |-> h,
                           pixels |-> [i \in 0..(w * h - 1) |->
                                          rows[stored(i)[1] + 1][stored(i)[2] + 1]]],
                heap |-> ({"Image", "pixels", "row"} \ no_pixels) \ {"row"},
                open_files |-> 1 - 1, opened |-> TRUE, header |-> header,
                fault |-> FALSE]

\* image_free: what stays allocated
image_free(img, blocks) == IF img.null THEN blocks ELSE blocks \ {"pixels", "Image"}

\* a 16-bit and a 32-bit field of the packed BMPHeader as fwrite stores it
le16(n) == <<n % 256, (n \div 256) % 256>>

le32(n) ==
    IF n >= 0
    THEN <<n % 256, (n \div 256) % 256, (n \div 65536) % 256, n \div 16777216>>
    ELSE LET m == (n + 2147483647) + 1
         IN <<m % 256, (m \div 256) % 256, (m \div 65536) % 256, (m \div 16777216) + 128>>

\* the fputc calls of row y from pixel x on: B, G, R
RECURSIVE write_row(_, _, _)
write_row(img, y, x) ==
    IF x >= img.width THEN <<>>
    ELSE LET idx == (y * img.width + x) * 3
         IN <<img.pixels[idx + 2], img.pixels[idx + 1], img.pixels[idx]>>
            \o write_row(img, y, x + 1)

RECURSIVE write_rows(_, _, _)
write_rows(img, y, padding) ==
    IF y < 0 THEN <<>>
    ELSE write_row(img, y, 0) \o Zeros(padding) \o write_rows(img, y - 1, padding)

\* the bytes write_bmp puts in the file
write_bmp(img) ==
    LET row_sz == CDiv(img.width * 3 + 3, 4) * 4
        padding == row_sz - img.width * 3
        image_size == row_sz * img.height
    IN le16(19778) \o le32(54 + image_size) \o le16(0) \o le16(0) \o le32(54)
       \o le32(40) \o le32(img.width) \o le32(img.height) \o le16(1) \o le16(24)
       \o le32(0) \o le32(image_size) \o le32(2835) \o le32(2835) \o le32(0) \o le32(0)
       \o write_rows(img, img.height - 1, padding)

\* ------------------------------------------------------------------- text
\* font_data[128][8]: row bytes of the 8x8 glyphs, bit 0 the leftmost pixel
font_data ==
    <<<<0, 0, 0, 0, 0, 0, 0, 0>>,
      <<0, 0, 0, 0, 0, 0, 0, 0>>,
      <<0, 0, 0, 0, 0, 0, 0, 0>>,
      <<0, 0, 0, 0, 0, 0, 0, 0>>,
      <<0, 0, 0, 0, 0, 0, 0, 0>>,
      <<0, 0, 0, 0, 0, 0, 0, 0>>,
      <<0, 0, 0, 0, 0, 0, 0, 0>>,
      <<0, 0, 0, 0, 0, 0, 0, 0>>,
      <<0, 0, 0, 0, 0, 0, 0, 0>>,
      <<0, 0, 0, 0, 0, 0, 0, 0>>,
      <<0, 0, 0, 0, 0, 0, 0, 0>>,
      <<0, 0, 0, 0, 0, 0, 0, 0>>,
      <<0, 0, 0, 0, 0, 0, 0, 0>>,
      <<0, 0, 0, 0, 0, 0, 0, 0>>,
      <<0, 0, 0, 0, 0, 0, 0, 0>>,
      <<0, 0, 0, 0, 0, 0, 0, 0>>,
      <<0, 0, 0, 0, 0, 0, 0, 0>>,
      <<0, 0, 0, 0, 0, 0, 0, 0>>,
      <<0, 0, 0, 0, 0, 0, 0, 0>>,
      <<0, 0, 0, 0, 0, 0, 0, 0>>,
      <<0, 0, 0, 0, 0, 0, 0, 0>>,
      <<0, 0, 0, 0, 0, 0, 0, 0>>,
      <<0, 0, 0, 0, 0, 0, 0, 0>>,
      <<0, 0, 0, 0, 0, 0, 0, 0>>,
      <<0, 0, 0, 0, 0, 0, 0, 0>>,
      <<0, 0, 0, 0, 0, 0, 0, 0>>,
      <<0, 0, 0, 0, 0, 0, 0, 0>>,
      <<0, 0, 0, 0, 0, 0, 0, 0>>,
      <<0, 0, 0, 0, 0, 0, 0, 0>>,
      <<0, 0, 0, 0, 0, 0, 0, 0>>,
      <<0, 0, 0, 0, 0, 0, 0, 0>>,
      <<0, 0, 0, 0, 0, 0, 0, 0>>,
      <<0, 0, 0, 0, 0, 0, 0, 0>>,
      <<24, 60, 60, 24, 24, 0, 24, 0>>,
      <<54, 54, 0, 0, 0, 0, 0, 0>>,
      <<54, 54, 127, 54, 127, 54, 54, 0>>,
      <<12, 62, 3, 30, 48, 31, 12, 0>>,
      <<0, 99, 51, 24, 12, 102, 99, 0>>,
      <<28, 54, 28, 110, 59, 51, 110, 0>>,
      <<6, 6, 3, 0, 0, 0, 0, 0>>,
      <<24, 12, 6, 6, 6, 12, 24, 0>>,
      <<6, 12, 24, 24, 24, 12, 6, 0>>,
      <<0, 102, 60, 255, 60, 102, 0, 0>>,
      <<0, 12, 12, 63, 12, 12, 0, 0>>,
      <<0, 0, 0, 0, 0, 12, 12, 6>>,
      <<0, 0, 0, 63, 0, 0, 0, 0>>,
      <<0, 0, 0, 0, 0, 12, 12, 0>>,
      <<96, 48, 24, 12, 6, 3, 1, 0>>,
      <<62, 99, 115, 123, 111, 103, 62, 0>>,
      <<12, 14, 12, 12, 12, 12, 63, 0>>,
      <<30, 51, 48, 28, 6, 51, 63, 0>>,
      <<30, 51, 48, 28, 48, 51, 30, 0>>,
      <<56, 60, 54, 51, 127, 48, 120, 0>>,
      <<63, 3, 31, 48, 48, 51, 30, 0>>,
      <<28, 6, 3, 31, 51, 51, 30, 0>>,
      <<63, 51, 48, 24, 12, 12, 12, 0>>,
      <<30, 51, 51, 30, 51, 51, 30, 0>>,
      <<30, 51, 51, 62, 48, 24, 14, 0>>,
      <<0, 12, 12, 0, 0, 12, 12, 0>>,
      <<0, 12, 12, 0, 0, 12, 12, 6>>,
      <<24, 12, 6, 3, 6, 12, 24, 0>>,
      <<0, 0, 63, 0, 0, 63, 0, 0>>,
      <<6, 12, 24, 48, 24, 12, 6, 0>>,
      <<30, 51, 48, 24, 12, 0, 12, 0>>,
      <<62, 99, 123, 123, 123, 3, 30, 0>>,
      <<12, 30, 51, 51, 63, 51, 51, 0>>,
      <<63, 102, 102, 62, 102, 102, 63, 0>>,
      <<60, 102, 3, 3, 3, 102, 60, 0>>,
      <<31, 54, 102, 102, 102, 54, 31, 0>>,
      <<127, 70, 22, 30, 22, 70, 127, 0>>,
      <<127, 70, 22, 30, 22, 6, 15, 0>>,
      <<60, 102, 3, 3, 115, 102, 124, 0>>,
      <<51, 51, 51, 63, 51, 51, 51, 0>>,
      <<30, 12, 12, 12, 12, 12, 30, 0>>,
      <<120, 48, 48, 48, 51, 51, 30, 0>>,
      <<103, 102, 54, 30, 54, 102, 103, 0>>,
      <<15, 6, 6, 6, 70, 102, 127, 0>>,
      <<99, 119, 127, 127, 107, 99, 99, 0>>,
      <<99, 103, 111, 123, 115, 99, 99, 0>>,
      <<28, 54, 99, 99, 99, 54, 28, 0>>,
      <<63, 102, 102, 62, 6, 6, 15, 0>>,
      <<30, 51, 51, 51, 59, 30, 56, 0>>,
      <<63, 102, 102, 62, 54, 102, 103, 0>>,
      <<30, 51, 7, 14, 56, 51, 30, 0>>,
      <<63, 45, 12, 12, 12, 12, 30, 0>>,
      <<51, 51, 51, 51, 51, 51, 63, 0>>,
      <<51, 51, 51, 51, 51, 30, 12, 0>>,
      <<99, 99, 99, 107, 127, 119, 99, 0>>,
      <<99, 99, 54, 28, 28, 54, 99, 0>>,
      <<51, 51, 51, 30, 12, 12, 30, 0>>,
      <<127, 99, 49, 24, 76, 102, 127, 0>>,
      <<30, 6, 6, 6, 6, 6, 30, 0>>,
      <<3, 6, 12, 24, 48, 96, 64, 0>>,
      <<30, 24, 24, 24, 24, 24, 30, 0>>,
      <<8, 28, 54, 99, 0, 0, 0, 0>>,
      <<0, 0, 0, 0, 0, 0, 0, 255>>,
      <<12, 12, 24, 0, 0, 0, 0, 0>>,
      <<0, 0, 30, 48, 62, 51, 110, 0>>,
      <<7, 6, 6, 62, 102, 102, 59, 0>>,
      <<0, 0, 30, 51, 3, 51, 30, 0>>,
      <<56, 48, 48, 62, 51, 51, 110, 0>>,
      <<0, 0, 30, 51, 63, 3, 30, 0>>,
      <<28, 54, 6, 15, 6, 6, 15, 0>>,
      <<0, 0, 110, 51, 51, 62, 48, 31>>,
      <<7, 6, 54, 110, 102, 102, 103, 0>>,
      <<12, 0, 14, 12, 12, 12, 30, 0>>,
      <<48, 0, 48, 48, 48, 51, 51, 30>>,
      <<7, 6, 102, 54, 30, 54, 103, 0>>,
      <<14, 12, 12, 12, 12, 12, 30, 0>>,
      <<0, 0, 51, 127, 127, 107, 99, 0>>,
      <<0, 0, 31, 51, 51, 51, 51, 0>>,
      <<0, 0, 30, 51, 51, 51, 30, 0>>,
      <<0, 0, 59, 102, 102, 62, 6, 15>>,
      <<0, 0, 110, 51, 51, 62, 48, 120>>,
      <<0, 0, 59, 110, 102, 6, 15, 0>>,
      <<0, 0, 62, 3, 30, 48, 31, 0>>,
      <<8, 12, 62, 12, 12, 44, 24, 0>>,
      <<0, 0, 51, 51, 51, 51, 110, 0>>,
      <<0, 0, 51, 51, 51, 30, 12, 0>>,
      <<0, 0, 99, 107, 127, 127, 54, 0>>,
      <<0, 0, 99, 54, 28, 54, 99, 0>>,
      <<0, 0, 51, 51, 51, 62, 48, 31>>,
      <<0, 0, 63, 25, 12, 38, 63, 0>>,
      <<56, 12, 12, 7, 12, 12, 56, 0>>,
      <<24, 24, 24, 0, 24, 24, 24, 0>>,
      <<7, 12, 12, 56, 12, 12, 7, 0>>,
      <<110, 59, 0, 0, 0, 0, 0, 0>>,
      <<0, 0, 0, 0, 0, 0, 0, 0>>>>

\* byte & (1 << col)
BitSet(byte, col) == (byte \div (2 ^ col)) % 2 = 1

glyph_index_wrapped(byte) == byte % 128

\* ch = (uint8_t)text[i]; if (ch >= 128) ch = 0
glyph_index(byte) == IF byte >= 128 THEN 0 ELSE byte

pen_advance_unscaled(scale) == 8

pen_advance(scale) == 8 * scale

\* the loops over sy and sx: the draw_pixel calls of one set bit
block_calls(px, py, scale) ==
    IF scale <= 0 THEN <<>>
    ELSE [k \in 1..(scale * scale) |-> <<px + ((k - 1) % scale), py + ((k - 1) \div scale)>>]

\* the loops over row and col from n = 8 * row + col on
RECURSIVE glyph_calls(_, _, _, _, _)
glyph_calls(ch, x, y, scale, n) ==
    IF n >= 64 THEN <<>>
    ELSE LET row == n \div 8
             col == n % 8
         IN (IF BitSet(font_data[ch + 1][row + 1], col)
             THEN block_calls(x + col * scale, y + row * scale, scale)
             ELSE <<>>)
            \o glyph_calls(ch, x, y, scale, n + 1)

\* the loop over i: per character the pen it met, the glyph it selected,
\* the draw_pixel calls it made and the pen it left
RECURSIVE text_loop(_, _, _, _, _, _)
text_loop(text, i, x, y, start_x, scale) ==
    IF text[i] = 0 THEN <<>>
    ELSE IF text[i] = 10
    THEN <<[byte |-> text[i], glyph |-> 0 - 1, x |-> x, y |-> y, calls |-> <<>>,
            nx |-> start_x, ny |-> y + pen_advance(scale)]>>
         \o text_loop(text, i + 1, start_x, y + pen_advance(scale), start_x, scale)
    ELSE LET ch == glyph_index(text[i])
         IN <<[byte |-> text[i], glyph |-> ch, x |-> x, y |-> y,
               calls |-> glyph_calls(ch, x, y, scale, 0),
               nx |-> x + pen_advance(scale), ny |-> y]>>
            \o text_loop(text, i + 1, x + pen_advance(scale), y, start_x, scale)

RECURSIVE cells_calls(_)
cells_calls(cells) ==
    IF cells = <<>> THEN <<>> ELSE Head(cells).calls \o cells_calls(Tail(cells))

renderer_draw_text(text, x, y, scale) ==
    LET cells == text_loop(text, 1, x, y, x, scale)
    IN [cells |-> cells, calls |-> cells_calls(cells)]

\* --------------------------------------------------------------- matrices
\* Mat4.m[i][j] is m[i + 1][j + 1]; Vec3 is a record of x, y, z
mat4_zero == [i \in 1..4 |-> [j \in 1..4 |-> F32Zero]]

mat4_set(m, i, j, v) == [m EXCEPT ![i + 1][j + 1] = v]

\* the identity with m[3][3] left at zero
mat4_identity_affine_only ==
    mat4_set(mat4_set(mat4_set(mat4_zero, 0, 0, F32FromInt(1)), 1, 1, F32FromInt(1)),
             2, 2, F32FromInt(1))

mat4_identity ==
    mat4_set(mat4_set(mat4_set(mat4_set(mat4_zero, 0, 0, F32FromInt(1)), 1, 1, F32FromInt(1)),
                      2, 2, F32FromInt(1)), 3, 3, F32FromInt(1))

mat4_translate(x, y, z) ==
    mat4_set(mat4_set(mat4_set(mat4_identity, 3, 0, x), 3, 1, y), 3, 2, z)

mat4_scale(x, y, z) ==
    mat4_set(mat4_set(mat4_set(mat4_identity, 0, 0, x), 1, 1, y), 2, 2, z)

\* result.m[i][j] after the loop over k has run from 0 to k
RECURSIVE mul_sum(_, _, _, _, _)
mul_sum(a, b, i, j, k) ==
    IF k < 0 THEN F32Zero
    ELSE F32Add(mul_sum(a, b, i, j, k - 1), F32Mul(a[i + 1][k + 1], b[k + 1][j + 1]))

mat4_mul(a, b) == [i \in 1..4 |-> [j \in 1..4 |-> mul_sum(a, b, i - 1, j - 1, 3)]]

\* m[0][j] * v.x + m[1][j] * v.y + m[2][j] * v.z + m[3][j] * w
column_dot(m, v, w, j) ==
    F32Add(F32Add(F32Add(F32Mul(m[1][j + 1], v.x), F32Mul(m[2][j + 1], v.y)),
                  F32Mul(m[3][j + 1], v.z)),
           F32Mul(m[4][j + 1], w))

mat4_mul_vec3(m, v, w) ==
    CHOOSE r \in {
        IF ww # F32Zero
        THEN [x |-> F32Div(x, ww), y |-> F32Div(y, ww), z |-> F32Div(z, ww)]
        ELSE [x |-> x, y |-> y, z |-> z]
        : x \in {column_dot(m, v, w, 0)}, y \in {column_dot(m, v, w, 1)},
          z \in {column_dot(m, v, w, 2)}, ww \in {column_dot(m, v, w, 3)}} : TRUE

\* 0.5f
F32Half == [s |-> 0, m |-> 2^23, e |-> 0 - 24]

\* renderer_project_point without the + 1.0f and 1.0f - that move the origin
\* of normalized device coordinates to the middle of the screen
project_point_uncentred(w, h, point, transform) ==
    CHOOSE r \in {
        [x |-> F32ToInt(F32Mul(F32Mul(projected.x, F32Half), F32FromInt(w))),
         y |-> F32ToInt(F32Mul(F32Mul(F32Neg(projected.y), F32Half), F32FromInt(h))),
         depth |-> projected.z]
        : projected \in {mat4_mul_vec3(transform, point, F32FromInt(1))}} : TRUE

\* the screen x, y and the depth renderer_project_point stores; w and h are
\* rend->width and rend->height
renderer_project_point(w, h, point, transform) ==
    CHOOSE r \in {
        [x |-> F32ToInt(F32Mul(F32Mul(F32Add(projected.x, F32FromInt(1)), F32Half),
                               F32FromInt(w))),
         y |-> F32ToInt(F32Mul(F32Mul(F32Sub(F32FromInt(1), projected.y), F32Half),
                               F32FromInt(h))),
         depth |-> projected.z]
        : projected \in {mat4_mul_vec3(transform, point, F32FromInt(1))}} : TRUE

\* ------------------------------------------------------- window system
\* the resources a Renderer holds, named after the field that holds them;
\* on Win32 the pixel memory belongs to the DIB section in back_buffer
X11Resources == {"display", "window", "gc", "framebuffer", "ximage"}

Win32Resources == {"hwnd", "hdc", "back_buffer_dc", "back_buffer"}

Fields == X11Resources \cup Win32Resources

Resources(b) == IF b = "x11" THEN X11Resources ELSE Win32Resources

\* Renderer rend = {0};
ZeroRenderer == [f \in Fields |-> 0]

\* the steps of renderer_init that can fail, "none" when none does
InitSteps(b) ==
    IF b = "x11" THEN {"none", "display", "framebuffer", "ximage"}
    ELSE {"none", "class", "hwnd", "back_buffer"}

\* X11 renderer_init up to its return: the fields it assigned, what it
\* acquired and still holds, what it freed itself, and its result
renderer_init_x11(r, step) ==
    IF step = "display"
    THEN [rend |-> [r EXCEPT !.display = 0], acquired |-> {}, freed |-> {}, ok |-> FALSE]
    ELSE IF step = "framebuffer"
    THEN [rend |-> [r EXCEPT !.display = 1, !.window = 1, !.gc = 1, !.framebuffer = 0],
          acquired |-> {"display", "window", "gc"}, freed |-> {}, ok |-> FALSE]
    ELSE IF step = "ximage"
    THEN [rend |-> [r EXCEPT !.display = 1, !.window = 1, !.gc = 1, !.framebuffer = 1,
                             !.ximage = 0],
          acquired |-> {"display", "window", "gc"}, freed |-> {"framebuffer"},
          ok |-> FALSE]
    ELSE [rend |-> [r EXCEPT !.display = 1, !.window = 1, !.gc = 1, !.framebuffer = 1,
                             !.ximage = 1],
          acquired |-> X11Resources, freed |-> {}, ok |-> TRUE]

\* Win32 renderer_init; CreateDIBSection stores the pixel pointer, NULL when it fails
renderer_init_win32(r, step) ==
    IF step = "class"
    THEN [rend |-> r, acquired |-> {}, freed |-> {}, ok |-> FALSE]
    ELSE IF step = "hwnd"
    THEN [rend |-> [r EXCEPT !.hwnd = 0], acquired |-> {}, freed |-> {}, ok |-> FALSE]
    ELSE IF step = "back_buffer"
    THEN [rend |-> [r EXCEPT !.hwnd = 1, !.hdc = 1, !.back_buffer_dc = 1,
                             !.back_buffer = 0, !.framebuffer = 0],
          acquired |-> {"hwnd", "hdc", "back_buffer_dc"}, freed |-> {}, ok |-> FALSE]
    ELSE [rend |-> [r EXCEPT !.hwnd = 1, !.hdc = 1, !.back_buffer_dc = 1,
                             !.back_buffer = 1, !.framebuffer = 1],
          acquired |-> Win32Resources, freed |-> {}, ok |-> TRUE]

renderer_init(b, r, step) ==
    IF b = "x11" THEN renderer_init_x11(r, step) ELSE renderer_init_win32(r, step)

\* the releases of renderer_cleanup in its if (field) order
cleanup_fields(b) ==
    IF b = "x11" THEN <<"ximage", "framebuffer", "gc", "window", "display">>
    ELSE <<"back_buffer", "back_buffer_dc", "hdc", "hwnd">>

RECURSIVE cleanup_from(_, _, _)
cleanup_from(b, r, k) ==
    IF k > Len(cleanup_fields(b)) THEN <<>>
    ELSE (IF r[cleanup_fields(b)[k]] # 0 THEN <<cleanup_fields(b)[k]>> ELSE <<>>)
         \o cleanup_from(b, r, k + 1)

\* the resources renderer_cleanup releases, in order
renderer_cleanup(b, r) == cleanup_from(b, r, 1)

\* position in todo of the first release of a resource that is not live, 0 if none
RECURSIVE first_dead(_, _, _)
first_dead(alive, todo, k) ==
    IF k > Len(todo) THEN 0
    ELSE IF todo[k] \notin alive THEN k
    ELSE first_dead(alive, todo, k + 1)

\* the resource whose release also frees the pixel memory
PixelOwner(b) == IF b = "x11" THEN "framebuffer" ELSE "back_buffer"

\* the resource that is the window
WindowOf(b) == IF b = "x11" THEN "window" ELSE "hwnd"

\* handle_event without the Escape test: no key press ends the loop
handle_event_keys_ignored(b, e, running, g) ==
    IF b = "x11"
    THEN IF e.type = "ClientMessage" THEN FALSE ELSE running
    ELSE IF e.type = "WM_CLOSE" THEN (IF g THEN FALSE ELSE running)
         ELSE running

\* X11: the body of the while (XPending) loop; Win32: WindowProc
handle_event(b, e, running, g) ==
    IF b = "x11"
    THEN IF e.type = "KeyPress"
         THEN (IF e.key = "Escape" THEN FALSE ELSE running)
         ELSE IF e.type = "ClientMessage" THEN FALSE
         ELSE running
    ELSE IF e.type = "WM_CLOSE" THEN (IF g THEN FALSE ELSE running)
         ELSE IF e.type = "WM_KEYDOWN"
         THEN (IF e.key = "Escape" /\ g THEN FALSE ELSE running)
         ELSE running

\* renderer_handle_events with if in place of while: only the oldest event
\* is looked at
handle_events_oldest_only(b, queue, running, g) ==
    IF queue = <<>> THEN running ELSE handle_event(b, Head(queue), running, g)

\* renderer_handle_events: is_running after every queued event was taken
RECURSIVE renderer_handle_events(_, _, _, _)
renderer_handle_events(b, queue, running, g) ==
    IF queue = <<>> THEN running
    ELSE renderer_handle_events(b, Tail(queue), handle_event(b, Head(queue), running, g), g)

\* ------------------------------------------------------------------ inputs
Black == color_make(0, 0, 0, 255)
Red   == color_make(255, 0, 0, 255)
Amber == color_make(250, 160, 20, 255)
Glass == color_make(255, 0, 0, 128)
Ghost == color_make(10, 200, 30, 0)
Unpainted == color_make(0, 0, 0, 0)

XS == (0 - Margin)..(MaxWidth + Margin - 1)
YS == (0 - Margin)..(MaxHeight + Margin - 1)
TS == (0 - 1)..(MaxHeight - 1)

ClearInputs(wide) == IF wide THEN {Black, Red, Glass} ELSE {Black, Glass}

PixelInputs(wide) ==
    IF wide THEN (XS \cup {0 - Far, Far}) \X (YS \cup {0 - Far, Far})
                 \X {Red, Amber, Glass, Ghost}
    ELSE {<<1, 1, Amber>>, <<1, 1, Ghost>>, <<Far, 0 - 1, Red>>, <<0, MaxHeight, Glass>>}

RectInputs(wide) ==
    IF wide THEN XS \X YS \X ((0 - 1)..(MaxWidth + 1)) \X ((0 - 1)..(MaxHeight + 1)) \X {Red}
    ELSE {<<0 - 1, 0, 3, 2, Red>>, <<1, 1, MaxWidth, MaxHeight, Glass>>,
          <<2, 0 - Far, 1, 2, Amber>>}

LineInputs(wide) ==
    IF wide THEN XS \X YS \X XS \X YS \X {Red}
    ELSE {<<0, 0, MaxWidth, 2, Black>>, <<MaxWidth - 1, 0, 0, MaxHeight - 1, Amber>>}

ThickLineInputs ==
    (0..(MaxWidth - 1)) \X (0..(MaxHeight - 1)) \X (0..(MaxWidth - 1)) \X (0..(MaxHeight - 1))
        \X ((0 - 1)..MaxThickness) \X {Red}

CircleInputs(wide) ==
    IF wide THEN XS \X YS \X ((0 - 1)..MaxHeight) \X {Red}
    ELSE {<<1, 1, 1, Red>>, <<MaxWidth, 0, 2, Black>>}

\* triangle outlines: two free corners and a third one on or off the screen
OutlineInputs(wide) ==
    IF wide THEN TS \X TS \X TS \X TS \X {0, MaxWidth} \X {1, MaxHeight - 1} \X {Red}
    ELSE {<<0, 0, 3, 0, 0, 2, Amber>>}

\* the largest n such that every int in 0..n is a float
ExactInt == 16777216

\* the largest n such that the difference of two ints in -n..n is a float
HalfExactInt == 8388608

\* a triangle with a long edge that falls 25 columns in 5 rows, and one whose
\* x coordinates are not floats
LongTriangles ==
    {<<25, 0, 25, 5, 0, 5, Red>>,
     <<ExactInt + 1, 0, ExactInt + 1, 1, ExactInt + 1, 2, Red>>}

TriangleInputs(wide) ==
    IF wide THEN (TS \X TS \X TS \X TS \X TS \X TS \X {Red}) \cup LongTriangles
    ELSE {<<0, 0, 3, 0, 0, 2, Black>>, <<2, 2, 2, 0 - 1, MaxWidth, 1, Amber>>}

\* what renderer_init leaves in the framebuffer: zeroes (CreateDIBSection, or
\* malloc handing out fresh pages), or whatever the block held before (any
\* words at all, and one sample of them to blend over)
Junk(seed, n) ==
    [i \in 0..(n - 1) |-> PackARGB((seed * 53 + i * 97) % 256, (seed * 11 + i * 31) % 256,
                                   (i * 7 + seed) % 256, (255 + seed + i * 19) % 256)]

InitialContents(n) ==
    {[i \in 0..(n - 1) |-> PackARGB(0, 0, 0, 0)], Junk(1, n),
     [i \in 0..(n - 1) |-> Unwritten]}

\* blending: translucent colors over uniformly filled framebuffers
BlendAlphas == {0, 1, 65, 128, 254}

BlendColors ==
    {color_make(c[1], c[2], c[3], a) :
        c \in {<<255, 0, 0>>, <<3, 0, 255>>, <<0, 255, 77>>, <<128, 128, 128>>},
        a \in BlendAlphas}

BlendContents(n) ==
    {[i \in 0..(n - 1) |-> PackARGB(da, d[1], d[2], d[3])] :
        da \in {0, 77, 255},
        d \in {<<0, 0, 0>>, <<3, 51, 0>>, <<255, 255, 255>>, <<200, 100, 7>>}}

BlendPositions == {<<0, 0>>, <<MaxWidth - 1, MaxHeight - 1>>}

\* texture coordinates: multiples of a quarter, below 0, in [0,1] and above 1
Quarter(n) == F32Div(F32FromInt(n), F32FromInt(4))

UVInputs == {<<Quarter(0), Quarter(0)>>, <<Quarter(4), Quarter(2)>>,
             <<Quarter(0 - 5), Quarter(11)>>, <<Quarter(3), Quarter(0 - 2)>>}

\* a texture of 2 x 3 distinct texels, one of a single translucent texel, NULL
NoTexture == [null |-> TRUE, width |-> 0, height |-> 0, pixels |-> <<>>]

Checker ==
    [null |-> FALSE, width |-> 2, height |-> 3,
     pixels |-> [i \in 0..5 |-> PackARGB(255, 40 * i + 10, 7 * i, 250 - i)]]

Speck ==
    [null |-> FALSE, width |-> 1, height |-> 1,
     pixels |-> [i \in 0..0 |-> PackARGB(128, 255, 0, 0)]]

TextureInputs == {NoTexture, Checker, Speck}

\* gradients: red to blue, and the two colors main.c fades between
Sky1 == color_make(40, 40, 80, 255)
Sky2 == color_make(20, 20, 40, 255)

GradientInputs(wide) ==
    IF wide THEN {0 - 1, 0, 1} \X {0 - 1, 0} \X ((0 - 1)..(MaxWidth + 1))
                 \X ((0 - 1)..(MaxHeight + 1))
                 \X {<<Red, color_make(0, 0, 255, 255)>>, <<Sky1, Sky2>>} \X BOOLEAN
    ELSE {<<0, 0, MaxWidth, MaxHeight, <<Sky1, Sky2>>, TRUE>>}

\* images drawn at every position around the screen, scaled by multiples of
\* a quarter (none, down, 1:1, up, mirrored) and faded or tinted
ImageInputs(wide) ==
    IF wide THEN TextureInputs \X XS \X YS ELSE {<<Speck, 1, 1>>}

ImageScales == {Quarter(0), Quarter(2), Quarter(4), Quarter(6), Quarter(8), Quarter(0 - 4)}

ImageExInputs ==
    TextureInputs \X {<<0, 0>>, <<0 - 1, 1>>} \X ImageScales \X {0, 128, 255}

TintInputs ==
    TextureInputs \X {<<0, 0>>, <<2, 1>>}
        \X {color_make(255, 128, 0, 255), color_make(0, 255, 77, 128)}

TexturedCorners ==
    {<<<<0, 0>>, <<MaxWidth - 1, 0>>, <<0, MaxHeight - 1>>>>,
     <<<<MaxWidth - 1, MaxHeight - 1>>, <<0, 1>>, <<2, 0 - 1>>>>,
     <<<<1, 1>>, <<MaxWidth, 1>>, <<0 - 1, 1>>>>,
     <<<<0, MaxHeight>>, <<2, 0>>, <<2, MaxHeight>>>>}

NoFile == [exists |-> FALSE, bytes |-> <<>>]

\* files: a 54-byte header with the fields image_load_bmp reads, then rows
BmpHeader(m1, m2, w, h, bits_per_pixel) ==
    <<m1, m2>> \o Zeros(16) \o le32(w) \o le32(h) \o le16(1) \o le16(bits_per_pixel)
    \o Zeros(24)

Ramp(n, seed) == [i \in 1..n |-> (seed + 7 * i) % 256]

BmpFile(m1, m2, w, h, bits_per_pixel, seed) ==
    [exists |-> TRUE,
     bytes |-> BmpHeader(m1, m2, w, h, bits_per_pixel)
               \o Ramp(row_size(bits_per_pixel, w) * Abs(h), seed)]

\* 2 x 2, 24 bits, bottom-up: red and white below, blue and green on top,
\* two padding bytes after each row
Example2x2 ==
    [exists |-> TRUE,
     bytes |-> BmpHeader(66, 77, 2, 2, 24)
               \o <<0, 0, 255, 255, 255, 255, 17, 34>>
               \o <<255, 0, 0, 0, 255, 0, 51, 68>>]

Truncated(file, n) == [exists |-> TRUE, bytes |-> SubSeq(file.bytes, 1, n)]

FileInputs ==
    {NoFile, Example2x2, Truncated(Example2x2, 0), Truncated(Example2x2, 1),
     Truncated(Example2x2, 2), Truncated(Example2x2, 28), Truncated(Example2x2, 54),
     Truncated(Example2x2, 62),
     BmpFile(77, 66, 1, 1, 24, 3), BmpFile(66, 0, 1, 1, 24, 3), BmpFile(0, 77, 1, 1, 32, 3)}
    \cup {BmpFile(66, 77, 1, 1, d, 3) : d \in {0, 1, 8, 16, 23, 25, 31, 33, 280}}
    \cup {BmpFile(66, 77, w, h, d, 5) :
            w \in (0 - 1)..MaxWidth, h \in (0 - MaxHeight)..MaxHeight, d \in {24, 32}}
    \cup {[exists |-> TRUE, bytes |-> BmpHeader(66, 77, 0 - 3, h, 24) \o Ramp(n, 5)] :
            h \in {0, 1}, n \in {0, 4}}

\* what the stack holds where the header array is put (header[54] is not
\* initialised): zeroes in a fresh stack, or what earlier calls of
\* image_load_bmp left there, each fread having replaced as many bytes as
\* its file had
StackJunk ==
    {fread(earlier, 54, f.bytes, 0).buf :
        earlier \in {fread(Zeros(54), 54, g.bytes, 0).buf : g \in FileInputs},
        f \in FileInputs}

\* what malloc leaves in each byte of the row buffer: zero in fresh memory,
\* anything in memory that was used before
HeapJunk == {0, Indeterminate}

RgbGrid(w, h, seed) ==
    [width |-> w, height |-> h,
     pixels |-> [i \in 0..(w * h * 3 - 1) |-> 1 + ((seed + 37 * i) % 255)]]

RgbGrids == {RgbGrid(w, h, seed) : w \in 1..MaxWidth, h \in 1..MaxHeight, seed \in {0, 100}}

\* texts: 'A', '!', a newline, two bytes above 127, and the terminator
TextBytes == {65, 33, 10, 200, 128}

RECURSIVE Strings(_)
Strings(n) ==
    IF n = 0 THEN {<<>>}
    ELSE Strings(n - 1) \cup {<<b>> \o s : b \in TextBytes, s \in {t \in Strings(n - 1) : Len(t) = n - 1}}

TextInputs ==
    {s \o <<0>> : s \in Strings(MaxText)} \X {<<0 - 3, 0 - 9>>} \X (0..MaxScale)
    \X {Red}

\* renderer_project_point applied to each of the points, in order
project_points(w, h, points, transform) ==
    [k \in DOMAIN points |-> renderer_project_point(w, h, points[k], transform)]

\* renderer_draw_line_3d: both ends projected, then renderer_draw_line
renderer_draw_line_3d(w, h, p1, p2, transform) ==
    CHOOSE r \in {renderer_draw_line(s[1].x, s[1].y, s[2].x, s[2].y) :
                     s \in {project_points(w, h, <<p1, p2>>, transform)}} : TRUE

\* renderer_draw_triangle_3d: the corners projected, then
\* renderer_draw_filled_triangle
renderer_draw_triangle_3d(w, h, p1, p2, p3, transform) ==
    CHOOSE r \in {renderer_draw_filled_triangle(<<s[1].x, s[1].y>>, <<s[2].x, s[2].y>>,
                                                 <<s[3].x, s[3].y>>) :
                     s \in {project_points(w, h, <<p1, p2, p3>>, transform)}} : TRUE

\* matrices with integer entries up to MaxEntry in size: the identity,
\* translations, scalings, and dense ones whose last column is not (0,0,0,1)
Dense(seed) ==
    [i \in 1..4 |-> [j \in 1..4 |->
        F32FromInt((((seed * (4 * i + j) * 5) + i * j) % (2 * MaxEntry + 1)) - MaxEntry)]]

Matrices ==
    {mat4_identity,
     mat4_translate(F32FromInt(1), F32FromInt(0), F32FromInt(0)),
     mat4_translate(F32FromInt(0 - MaxEntry), F32FromInt(2), F32FromInt(1)),
     mat4_scale(F32FromInt(2), F32FromInt(2), F32FromInt(2)),
     mat4_scale(F32FromInt(1), F32FromInt(0 - 1), F32FromInt(MaxEntry))}
    \cup {Dense(seed) : seed \in 1..MaxEntry}

vec3_make(x, y, z) == [x |-> x, y |-> y, z |-> z]

Points ==
    {vec3_make(F32FromInt(1), F32FromInt(1), F32FromInt(1)),
     vec3_make(F32FromInt(0), F32FromInt(0), F32FromInt(0)),
     vec3_make(F32FromInt(0 - 2), F32FromInt(MaxEntry), F32FromInt(1))}

\* renderer sizes: small ones, the examples' 800 x 600, odd ones, and ones
\* around the largest width that converts to float unchanged
ScreenSizes == {1, MaxHeight, MaxWidth, 600, 799, 800, ExactInt, ExactInt + 1, ExactInt + 3}

NoAux == [done |-> TRUE, divs |-> <<>>]

\* ----------------------------------------------------------------- actions
\* the window-system state after renderer_init succeeded on a zeroed Renderer,
\* the library being called directly
Initialised(b) ==
    /\ build = b
    /\ rend = renderer_init(b, ZeroRenderer, "none").rend
    /\ rend0 = ZeroRenderer
    /\ is_running = TRUE
    /\ g_renderer = TRUE
    /\ live = Resources(b)
    /\ releases = [f \in Fields |-> 0]
    /\ cleanups = 0
    /\ crashed = FALSE
    /\ events = <<>>
    /\ pc = "lib"
    /\ history = <<>>

ScreenStart(first, widths, heights, contents, files) ==
    /\ width \in widths
    /\ height \in heights
    /\ framebuffer \in contents
    /\ wild = {}
    /\ op = first
    /\ args = <<>>
    /\ color = Unpainted
    /\ trace = <<>>
    /\ before = <<>>
    /\ aux = NoAux
    /\ clear_color = Unpainted
    /\ painted = [i \in 0..(MaxWidth * MaxHeight - 1) |-> Unpainted]
    /\ opaque_only = FALSE
    /\ ncalls = 0
    /\ disk \in files
    /\ image = NullImage
    /\ heap = {}
    /\ open_files = 0

StartSized(widths, heights, contents, files) ==
    /\ ScreenStart("init", widths, heights, contents, files)
    /\ Initialised("x11")

StartWith(contents, files) == StartSized({MaxWidth}, {MaxHeight}, contents, files)

Start(contents) == StartWith(contents, {NoFile})

Init == Start(InitialContents(MaxWidth * MaxHeight))

\* a recorded single call (wide inputs) follows init or a clear, and the calls
\* whose pixels do not depend on the framebuffer follow a clear to black; a
\* sequence of calls (narrow inputs) is cut at MaxCalls
MayCall(wide, name) ==
    IF ~wide THEN ncalls < MaxCalls
    ELSE IF name \in {"pixel", "image", "image_ex", "tint"} THEN op \in {"init", "clear"}
    ELSE IF name \in {"filled_rect", "rect"} THEN op = "clear"
    ELSE op = "clear" /\ color = Black

Covered(calls, i) ==
    \E k \in 1..Len(calls) :
        /\ calls[k][1] >= 0 /\ calls[k][1] < width
        /\ calls[k][2] >= 0 /\ calls[k][2] < height
        /\ calls[k][2] * width + calls[k][1] = i

DrawCall(name, a, c, calls, ax) ==
    \E done \in {calls} :
        \E m \in {Paint(Mem, width, height, done, c)} :
        /\ framebuffer' = m.fb
        /\ wild' = m.wild
        /\ op' = name
        /\ painted' = [i \in DOMAIN painted |-> IF Covered(done, i) THEN c ELSE painted[i]]
        /\ opaque_only' = (opaque_only /\ c.a = 255)
        /\ ncalls' = ncalls + 1
        /\ args' = a
        /\ color' = c
        /\ trace' = done
        /\ before' = framebuffer
        /\ aux' = ax
        /\ UNCHANGED <<width, height, clear_color, loader>>

Draw(wide, name, a, c, calls, ax) ==
    DrawCall(name, a, c, calls, ax) /\ UNCHANGED platform

ClearTo(c) ==
    \E m \in {renderer_clear(Mem, width, height, c)} :
    /\ framebuffer' = m.fb
    /\ wild' = m.wild
    /\ op' = "clear"
    /\ painted' = [i \in DOMAIN painted |-> c]
    /\ opaque_only' = (c.a = 255)
    /\ ncalls' = ncalls + 1
    /\ args' = <<>>
    /\ color' = c
    /\ clear_color' = c
    /\ trace' = <<>>
    /\ before' = <<>>
    /\ aux' = NoAux
    /\ UNCHANGED <<width, height, loader>>

Clear(wide) ==
    /\ IF wide THEN op = "init" ELSE ncalls < MaxCalls
    /\ \E c \in ClearInputs(wide) : ClearTo(c) /\ UNCHANGED platform

DrawPixel(wide) ==
    /\ MayCall(wide, "pixel")
    /\ \E i \in PixelInputs(wide) :
        Draw(wide, "pixel", <<i[1], i[2]>>, i[3], <<<<i[1], i[2]>>>>, NoAux)

DrawFilledRect(wide) ==
    /\ MayCall(wide, "filled_rect")
    /\ \E i \in RectInputs(wide) :
        Draw(wide, "filled_rect", <<i[1], i[2], i[3], i[4]>>, i[5],
             draw_filled_rect_calls(i[1], i[2], i[3], i[4]), NoAux)

DrawRect ==
    /\ MayCall(TRUE, "rect")
    /\ \E i \in RectInputs(TRUE) :
        Draw(TRUE, "rect", <<i[1], i[2], i[3], i[4]>>, i[5],
             draw_rect_calls(i[1], i[2], i[3], i[4]), NoAux)

DrawLine(wide) ==
    /\ MayCall(wide, "line")
    /\ \E i \in LineInputs(wide) :
        LET r == renderer_draw_line(i[1], i[2], i[3], i[4]) IN
        Draw(wide, "line", <<i[1], i[2], i[3], i[4]>>, i[5], r.calls,
             [done |-> r.done, divs |-> <<>>])

DrawThickLine ==
    /\ MayCall(TRUE, "thick_line")
    /\ \E i \in ThickLineInputs :
        LET r == renderer_draw_thick_line(i[1], i[2], i[3], i[4], i[5]) IN
        Draw(TRUE, "thick_line", <<i[1], i[2], i[3], i[4], i[5]>>, i[6], r.calls,
             [done |-> TRUE, divs |-> <<>>, lines |-> r.lines])

DrawFilledCircle(wide) ==
    /\ MayCall(wide, "filled_circle")
    /\ \E i \in CircleInputs(wide) :
        Draw(wide, "filled_circle", <<i[1], i[2], i[3]>>, i[4],
             draw_filled_circle_calls(i[1], i[2], i[3]), NoAux)

DrawFilledTriangle(wide) ==
    /\ MayCall(wide, "filled_triangle")
    /\ \E i \in TriangleInputs(wide) :
        LET r == renderer_draw_filled_triangle(<<i[1], i[2]>>, <<i[3], i[4]>>, <<i[5], i[6]>>) IN
        Draw(wide, "filled_triangle", <<i[1], i[2], i[3], i[4], i[5], i[6]>>, i[7],
             r.calls, [done |-> TRUE, divs |-> r.divs])

DrawCircle ==
    /\ MayCall(TRUE, "circle")
    /\ \E i \in CircleInputs(TRUE) :
        Draw(TRUE, "circle", <<i[1], i[2], i[3]>>, i[4],
             renderer_draw_circle(i[1], i[2], i[3]), NoAux)

DrawTriangle(wide) ==
    /\ MayCall(wide, "triangle")
    /\ \E i \in OutlineInputs(wide) :
        \E r \in {renderer_draw_triangle(i[1], i[2], i[3], i[4], i[5], i[6])} :
        Draw(wide, "triangle", <<i[1], i[2], i[3], i[4], i[5], i[6]>>, i[7], r.calls,
             [done |-> r.done, divs |-> <<>>, lines |-> r.lines])

DrawLine3D ==
    /\ MayCall(TRUE, "line_3d")
    /\ \E i \in Points \X Points \X Matrices :
        \E r \in {renderer_draw_line_3d(width, height, i[1], i[2], i[3])} :
        Draw(TRUE, "line_3d", i, Red, r.calls,
             [done |-> r.done, divs |-> <<>>])

DrawTriangle3D ==
    /\ MayCall(TRUE, "triangle_3d")
    /\ \E i \in Points \X Points \X Points \X Matrices :
        \E r \in {renderer_draw_triangle_3d(width, height, i[1], i[2], i[3], i[4])} :
        Draw(TRUE, "triangle_3d", i, Red, r.calls,
             [done |-> TRUE, divs |-> r.divs])

\* the color of the last sample drawn at pixel i, or old when there is none
RECURSIVE last_color(_, _, _)
last_color(samples, i, old) ==
    IF samples = <<>> THEN old
    ELSE LET sm == Head(samples)
             hit == /\ sm.x >= 0 /\ sm.x < width /\ sm.y >= 0 /\ sm.y < height
                    /\ sm.y * width + sm.x = i
         IN last_color(Tail(samples), i, IF hit THEN sm.color ELSE old)

\* a call that passes a color of its own with every pixel
DrawSamples(wide, name, a, samples) ==
    \E done \in {samples} :
        \E m \in {paint_colors(Mem, width, height, done)} :
        /\ framebuffer' = m.fb
        /\ wild' = m.wild
        /\ op' = name
        /\ args' = a
        /\ color' = Unpainted
        /\ trace' = [k \in 1..Len(done) |-> <<done[k].x, done[k].y>>]
        /\ before' = framebuffer
        /\ aux' = [done |-> TRUE, divs |-> <<>>, samples |-> done]
        /\ painted' = [i \in DOMAIN painted |-> last_color(done, i, painted[i])]
        /\ opaque_only' = (opaque_only /\ \A k \in 1..Len(done) : done[k].color.a = 255)
        /\ ncalls' = ncalls + 1
        /\ UNCHANGED <<width, height, clear_color, loader, platform>>

DrawGradientRect(wide) ==
    /\ MayCall(wide, "gradient_rect")
    /\ \E i \in GradientInputs(wide) :
        DrawSamples(wide, "gradient_rect", <<i[1], i[2], i[3], i[4], i[5][1], i[5][2], i[6]>>,
                    renderer_draw_gradient_rect(i[1], i[2], i[3], i[4], i[5][1], i[5][2], i[6]))

DrawImage(wide) ==
    /\ MayCall(wide, "image")
    /\ \E i \in ImageInputs(wide) :
        DrawSamples(wide, "image", <<i[1], i[2], i[3]>>,
                    renderer_draw_image(i[1], i[2], i[3]))

DrawImageEx ==
    /\ MayCall(TRUE, "image_ex")
    /\ \E i \in ImageExInputs :
        DrawSamples(TRUE, "image_ex", <<i[1], i[2][1], i[2][2], i[3], i[4]>>,
                    renderer_draw_image_ex(i[1], i[2][1], i[2][2], i[3], i[4]))

ApplyTint ==
    /\ MayCall(TRUE, "tint")
    /\ \E i \in TintInputs :
        DrawSamples(TRUE, "tint", <<i[1], i[2][1], i[2][2], i[3]>>,
                    renderer_apply_tint(i[1], i[2][1], i[2][2], i[3]))

\* sequences of calls
Next ==
    \/ Clear(FALSE)
    \/ DrawPixel(FALSE)
    \/ DrawFilledRect(FALSE)
    \/ DrawLine(FALSE)
    \/ DrawFilledCircle(FALSE)
    \/ DrawFilledTriangle(FALSE)
    \/ DrawTriangle(FALSE)
    \/ DrawGradientRect(FALSE)
    \/ DrawImage(FALSE)

Spec == Init /\ [][Next]_vars

\* one recorded call on a fresh or freshly cleared framebuffer
NextCall ==
    \/ Clear(TRUE)
    \/ DrawPixel(TRUE)
    \/ DrawFilledRect(TRUE)
    \/ DrawRect
    \/ DrawThickLine
    \/ DrawLine(TRUE)
    \/ DrawFilledCircle(TRUE)
    \/ DrawFilledTriangle(TRUE)
    \/ DrawCircle
    \/ DrawTriangle(TRUE)
    \/ DrawLine3D
    \/ DrawTriangle3D
    \/ DrawGradientRect(TRUE)
    \/ DrawImage(TRUE)
    \/ DrawImageEx
    \/ ApplyTint

SpecCall == Init /\ [][NextCall]_vars

\* filled triangles alone, each on a framebuffer cleared to black
InitTriangle == StartWith({Junk(1, MaxWidth * MaxHeight)}, {NoFile})

NextTriangle ==
    \/ Clear(TRUE)
    \/ DrawFilledTriangle(TRUE)

SpecTriangle == InitTriangle /\ [][NextTriangle]_vars

DrawTexturedTriangle ==
    /\ op = "init"
    /\ \E c \in TexturedCorners, uv1 \in UVInputs, uv2 \in UVInputs, uv3 \in UVInputs,
          texture \in TextureInputs :
        LET p1 == <<c[1][1], c[1][2], uv1[1], uv1[2]>>
            p2 == <<c[2][1], c[2][2], uv2[1], uv2[2]>>
            p3 == <<c[3][1], c[3][2], uv3[1], uv3[2]>>
        IN \E samples \in {renderer_draw_textured_triangle(p1, p2, p3, texture)} :
           LET m == paint_samples(Mem, width, height, samples) IN
           /\ framebuffer' = m.fb
           /\ wild' = m.wild
           /\ op' = "textured_triangle"
           /\ args' = <<p1, p2, p3, texture>>
           /\ color' = Unpainted
           /\ trace' = [k \in 1..Len(samples) |-> <<samples[k].x, samples[k].y>>]
           /\ before' = framebuffer
           /\ aux' = [done |-> TRUE, divs |-> <<>>, samples |-> samples]
           /\ painted' = [i \in DOMAIN painted |-> last_color(samples, i, painted[i])]
           /\ opaque_only' = (opaque_only /\ \A k \in 1..Len(samples) : samples[k].color.a = 255)
           /\ ncalls' = ncalls + 1
           /\ UNCHANGED <<width, height, clear_color, loader, platform>>

NextTexture == DrawTexturedTriangle

SpecTexture == Init /\ [][NextTexture]_vars

\* the loader and the writer
screen == <<width, height, framebuffer, wild, color, trace, before, clear_color,
            painted, opaque_only, ncalls>>

InitBmp == StartWith(InitialContents(MaxWidth * MaxHeight), FileInputs)

WriteBmp ==
    /\ op = "init"
    /\ ~disk.exists
    /\ \E img \in RgbGrids, created \in BOOLEAN :
        /\ disk' = IF created THEN [exists |-> TRUE, bytes |-> write_bmp(img)] ELSE disk
        /\ op' = "write_bmp"
        /\ args' = <<img>>
        /\ aux' = [done |-> TRUE, divs |-> <<>>, result |-> IF created THEN 0 ELSE 0 - 1]
        /\ UNCHANGED <<screen, image, heap, open_files, platform>>

LoadBmp(stack, junk) ==
    \E r \in {image_load_bmp(disk, stack, junk)} :
        /\ image' = r.image
        /\ heap' = heap \cup r.heap
        /\ open_files' = open_files + r.open_files
        /\ op' = "load_bmp"
        /\ args' = <<disk>>
        /\ aux' = [done |-> TRUE, divs |-> <<>>, header |-> r.header,
                   opened |-> r.opened, fault |-> r.fault]
        /\ UNCHANGED <<screen, disk>>

\* the stacks of StackJunk, told apart by the bytes the fread of the header
\* leaves of them (the call reads no other)
ImageLoadBmp ==
    /\ image.null
    /\ op = "load_bmp" => ~aux.fault
    /\ \E stack \in {fread(held, 54, disk.bytes, 0).buf : held \in StackJunk},
          junk \in HeapJunk :
        LoadBmp(stack, junk) /\ UNCHANGED platform

ImageFree ==
    /\ op = "load_bmp"
    /\ ~aux.fault
    /\ image' = NullImage
    /\ heap' = image_free(image, heap)
    /\ op' = "image_free"
    /\ args' = <<image>>
    /\ aux' = NoAux
    /\ UNCHANGED <<screen, disk, open_files, platform>>

NextBmp == WriteBmp \/ ImageLoadBmp \/ ImageFree

SpecBmp == InitBmp /\ [][NextBmp]_vars

\* text
DrawText ==
    /\ op = "init"
    /\ \E i \in TextInputs :
        \E r \in {renderer_draw_text(i[1], i[2][1], i[2][2], i[3])} :
            Draw(TRUE, "text", <<i[1], i[2][1], i[2][2], i[3]>>, i[4], r.calls,
                 [done |-> TRUE, divs |-> <<>>, cells |-> r.cells])

InitText == StartWith({Junk(1, MaxWidth * MaxHeight)}, {NoFile})

NextText == DrawText

SpecText == InitText /\ [][NextText]_vars

\* matrices
InitMat == StartWith({Junk(1, MaxWidth * MaxHeight)}, {NoFile})

Mat4Mul ==
    /\ op = "init"
    /\ \E a \in Matrices, b \in Matrices :
        /\ op' = "mat4_mul"
        /\ args' = <<a, b>>
        /\ aux' = [done |-> TRUE, divs |-> <<>>, result |-> mat4_mul(a, b)]
        /\ UNCHANGED <<screen, loader, platform>>

Mat4MulVec3 ==
    /\ op = "mat4_mul"
    /\ \E p \in Points :
        /\ op' = "mat4_mul_vec3"
        /\ args' = <<args[1], args[2], p>>
        /\ aux' = [done |-> TRUE, divs |-> <<>>, matrix |-> aux.result,
                   result |-> mat4_mul_vec3(aux.result, p, F32FromInt(1))]
        /\ UNCHANGED <<screen, loader, platform>>

NextMat == Mat4Mul \/ Mat4MulVec3

SpecMat == InitMat /\ [][NextMat]_vars

\* projection to the screen; the pixel memory, which the projection does not
\* touch, is left out
InitProject ==
    /\ StartSized(ScreenSizes, ScreenSizes, {<<>>}, {NoFile})

ProjectPoint ==
    /\ op = "init"
    /\ \E p \in Points, t \in Matrices :
        /\ op' = "project_point"
        /\ args' = <<p, t>>
        /\ aux' = [done |-> TRUE, divs |-> <<>>,
                   result |-> renderer_project_point(width, height, p, t)]
        /\ UNCHANGED <<screen, loader, platform>>

NextProject == ProjectPoint

SpecProject == InitProject /\ [][NextProject]_vars

\* the window system: renderer_init, the event queue, renderer_cleanup
handles == <<build, rend, rend0, g_renderer, live, releases, cleanups, crashed>>

recorder == <<wild, color, trace, before, clear_color, painted, opaque_only, ncalls>>

\* Renderer rend = {0}; before renderer_init
Zeroed(first) ==
    /\ build \in {"x11", "win32"}
    /\ rend = ZeroRenderer
    /\ rend0 = ZeroRenderer
    /\ is_running = FALSE
    /\ g_renderer = FALSE
    /\ live = {}
    /\ releases = [f \in Fields |-> 0]
    /\ cleanups = 0
    /\ crashed = FALSE
    /\ events = <<>>
    /\ pc = first
    /\ history = <<>>

InitPlatform ==
    /\ ScreenStart("zero", {0}, {0}, {<<>>}, {NoFile})
    /\ Zeroed("lib")

\* the events the window can be sent
EventKinds(b) ==
    IF b = "x11"
    THEN {[type |-> "KeyPress", key |-> "Escape"], [type |-> "KeyPress", key |-> "a"],
          [type |-> "ClientMessage", key |-> "WM_DELETE_WINDOW"],
          [type |-> "Expose", key |-> "none"]}
    ELSE {[type |-> "WM_KEYDOWN", key |-> "Escape"], [type |-> "WM_KEYDOWN", key |-> "a"],
          [type |-> "WM_CLOSE", key |-> "none"], [type |-> "WM_PAINT", key |-> "none"]}

\* every resource of a successful renderer_init is held and none was released
Usable == ~crashed /\ cleanups = 0 /\ live = Resources(build)

Released(done) == {done[k] : k \in 1..Len(done)}

\* renderer_init(rend, title, w, h) failing at step, or succeeding with the
\* pixel memory holding contents
DoInit(w, h, step, contents) ==
    \E r \in {renderer_init(build, rend, step)} :
        /\ g_renderer' = TRUE
        /\ width' = w
        /\ height' = h
        /\ is_running' = TRUE
        /\ rend0' = rend
        /\ rend' = r.rend
        /\ live' = live \cup r.acquired
        /\ releases' = [f \in Fields |-> IF f \in r.freed THEN 1 ELSE 0]
        /\ cleanups' = 0
        /\ framebuffer' = IF r.ok THEN contents ELSE <<>>
        /\ wild' = {}
        /\ op' = IF r.ok THEN "init" ELSE "init_failed"
        /\ args' = <<w, h, step>>
        /\ color' = Unpainted
        /\ trace' = <<>>
        /\ before' = <<>>
        /\ aux' = [done |-> TRUE, divs |-> <<>>, result |-> r.ok]
        /\ clear_color' = Unpainted
        /\ painted' = [i \in 0..(w * h - 1) |-> Unpainted]
        /\ opaque_only' = FALSE
        /\ ncalls' = 0
        /\ UNCHANGED <<build, crashed, events, loader>>

\* renderer_cleanup; crash: the process ends in the first release of a
\* resource that is not live
DoCleanup(crash) ==
    \E todo \in {renderer_cleanup(build, rend)} :
        LET k == first_dead(live, todo, 1)
            done == IF crash THEN SubSeq(todo, 1, k) ELSE todo
        IN /\ crash => k > 0
           /\ live' = live \ Released(done)
           /\ releases' = [f \in Fields |->
                              IF f \in Released(done) THEN releases[f] + 1 ELSE releases[f]]
           /\ cleanups' = cleanups + 1
           /\ crashed' = crash
           /\ g_renderer' = (crash /\ g_renderer)
           /\ framebuffer' = IF PixelOwner(build) \in Released(done) THEN <<>> ELSE framebuffer
           /\ events' = IF WindowOf(build) \in Released(done) THEN <<>> ELSE events
           /\ op' = "cleanup"
           /\ args' = <<>>
           /\ aux' = [done |-> TRUE, divs |-> <<>>, released |-> done]
           /\ UNCHANGED <<build, rend, rend0, is_running, width, height, recorder, loader>>

\* renderer_handle_events
DoHandleEvents ==
    /\ is_running' = renderer_handle_events(build, events, is_running, g_renderer)
    /\ events' = <<>>
    /\ UNCHANGED <<handles, width, height, framebuffer, op, args, aux, recorder, loader>>

RendererInit ==
    /\ pc = "lib"
    /\ ~crashed
    /\ op = "zero" \/ cleanups > 0
    /\ \E step \in InitSteps(build), contents \in InitialContents(MaxWidth * MaxHeight) :
        DoInit(MaxWidth, MaxHeight, step, contents)
    /\ history' = <<"init">>
    /\ UNCHANGED pc

RendererCleanup ==
    /\ pc = "lib"
    /\ ~crashed
    /\ op # "zero"
    /\ cleanups < MaxCleanups
    /\ \E crash \in BOOLEAN : DoCleanup(crash)
    /\ history' = <<"cleanup">>
    /\ UNCHANGED pc

\* the window system queues an event for the window
Deliver ==
    /\ ~crashed
    /\ WindowOf(build) \in live
    /\ pc \in {"lib", "load", "test", "handle_events", "clear", "draws", "present", "sleep"}
    /\ Len(events) < MaxEvents
    /\ \E e \in EventKinds(build) : events' = Append(events, e)
    /\ UNCHANGED <<handles, is_running, pc, history, width, height, framebuffer, op, args,
                   aux, recorder, loader>>

RendererHandleEvents ==
    /\ pc = "lib"
    /\ Usable
    /\ DoHandleEvents
    /\ history' = <<"handle_events">>
    /\ UNCHANGED pc

\* renderer_present copies the pixels to the window and renderer_sleep
\* waits: neither stores to the Renderer
RendererPresent ==
    /\ pc = "lib"
    /\ Usable
    /\ history' = <<"present">>
    /\ UNCHANGED <<handles, is_running, events, pc, width, height, framebuffer, op, args,
                   aux, recorder, loader>>

RendererSleep ==
    /\ pc = "lib"
    /\ ~crashed
    /\ op # "zero"
    /\ history' = <<"sleep">>
    /\ UNCHANGED <<handles, is_running, events, pc, width, height, framebuffer, op, args,
                   aux, recorder, loader>>

RendererClear == pc = "lib" /\ Usable /\ Clear(TRUE)

RendererDrawPixel ==
    /\ pc = "lib"
    /\ Usable
    /\ MayCall(TRUE, "pixel")
    /\ \E i \in PixelInputs(FALSE) :
        Draw(TRUE, "pixel", <<i[1], i[2]>>, i[3], <<<<i[1], i[2]>>>>, NoAux)

NextPlatform ==
    \/ RendererInit
    \/ RendererCleanup
    \/ Deliver
    \/ RendererHandleEvents
    \/ RendererPresent
    \/ RendererSleep
    \/ RendererClear
    \/ RendererDrawPixel

SpecPlatform == InitPlatform /\ [][NextPlatform]_vars

\* ------------------------------------------------------- the frame of main
\* a double that main adds to an int and casts: its floor, and whether it
\* has a fraction
Dbl(whole, part) == [whole |-> whole, part |-> part]

\* (int)(k + p) for an int k and such a double p: truncation toward zero
int_of_sum(k, p) ==
    IF k + p.whole >= 0 THEN k + p.whole
    ELSE k + p.whole + (IF p.part THEN 1 ELSE 0)

\* what main computes from the clock with sin and cos for a frame that starts
\* at time 0: each product as its floor and whether it has a fraction, each
\* uint8_t and int as its value, scale as the float
ClockAt0 ==
    [rect |-> <<
          [x |-> Dbl(200, FALSE), y |-> Dbl(0, FALSE), r |-> 128, g |-> 255, b |-> 128],
          [x |-> Dbl(61, TRUE), y |-> Dbl(142, TRUE), r |-> 234, g |-> 196, b |-> 234],
          [x |-> Dbl(0 - 162, TRUE), y |-> Dbl(88, TRUE), r |-> 243, g |-> 75, b |-> 243],
          [x |-> Dbl(0 - 162, TRUE), y |-> Dbl(0 - 89, TRUE), r |-> 145, g |-> 2, b |-> 145],
          [x |-> Dbl(61, TRUE), y |-> Dbl(0 - 143, TRUE), r |-> 31, g |-> 44, b |-> 31]>>,
      orb |-> <<
          [x |-> Dbl(180, FALSE), y |-> Dbl(0, FALSE),
           trail |-> <<
              [x |-> Dbl(180, FALSE), y |-> Dbl(0, FALSE)],
              [x |-> Dbl(179, TRUE), y |-> Dbl(0 - 18, TRUE)],
              [x |-> Dbl(176, TRUE), y |-> Dbl(0 - 36, TRUE)],
              [x |-> Dbl(171, TRUE), y |-> Dbl(0 - 54, TRUE)],
              [x |-> Dbl(165, TRUE), y |-> Dbl(0 - 71, TRUE)],
              [x |-> Dbl(157, TRUE), y |-> Dbl(0 - 87, TRUE)],
              [x |-> Dbl(148, TRUE), y |-> Dbl(0 - 102, TRUE)],
              [x |-> Dbl(137, TRUE), y |-> Dbl(0 - 116, TRUE)],
              [x |-> Dbl(125, TRUE), y |-> Dbl(0 - 130, TRUE)],
              [x |-> Dbl(111, TRUE), y |-> Dbl(0 - 141, TRUE)]>>],
          [x |-> Dbl(0 - 91, TRUE), y |-> Dbl(155, TRUE),
           trail |-> <<
              [x |-> Dbl(0 - 91, TRUE), y |-> Dbl(155, TRUE)],
              [x |-> Dbl(0 - 74, TRUE), y |-> Dbl(164, TRUE)],
              [x |-> Dbl(0 - 58, TRUE), y |-> Dbl(170, TRUE)],
              [x |-> Dbl(0 - 40, TRUE), y |-> Dbl(175, TRUE)],
              [x |-> Dbl(0 - 23, TRUE), y |-> Dbl(178, TRUE)],
              [x |-> Dbl(0 - 5, TRUE), y |-> Dbl(179, TRUE)],
              [x |-> Dbl(13, TRUE), y |-> Dbl(179, TRUE)],
              [x |-> Dbl(31, TRUE), y |-> Dbl(177, TRUE)],
              [x |-> Dbl(49, TRUE), y |-> Dbl(173, TRUE)],
              [x |-> Dbl(66, TRUE), y |-> Dbl(167, TRUE)]>>],
          [x |-> Dbl(0 - 90, TRUE), y |-> Dbl(0 - 156, TRUE),
           trail |-> <<
              [x |-> Dbl(0 - 90, TRUE), y |-> Dbl(0 - 156, TRUE)],
              [x |-> Dbl(0 - 106, TRUE), y |-> Dbl(0 - 147, TRUE)],
              [x |-> Dbl(0 - 120, TRUE), y |-> Dbl(0 - 135, TRUE)],
              [x |-> Dbl(0 - 133, TRUE), y |-> Dbl(0 - 123, TRUE)],
              [x |-> Dbl(0 - 144, TRUE), y |-> Dbl(0 - 109, TRUE)],
              [x |-> Dbl(0 - 154, TRUE), y |-> Dbl(0 - 94, TRUE)],
              [x |-> Dbl(0 - 163, TRUE), y |-> Dbl(0 - 78, TRUE)],
              [x |-> Dbl(0 - 170, TRUE), y |-> Dbl(0 - 62, TRUE)],
              [x |-> Dbl(0 - 175, TRUE), y |-> Dbl(0 - 45, TRUE)],
              [x |-> Dbl(0 - 179, TRUE), y |-> Dbl(0 - 27, TRUE)]>>]>>,
      ray |-> <<
          [x |-> Dbl(100, FALSE), y |-> Dbl(0, FALSE), intensity |-> 128],
          [x |-> Dbl(86, TRUE), y |-> Dbl(50, TRUE), intensity |-> 234],
          [x |-> Dbl(49, TRUE), y |-> Dbl(86, TRUE), intensity |-> 243],
          [x |-> Dbl(0 - 1, TRUE), y |-> Dbl(99, TRUE), intensity |-> 145],
          [x |-> Dbl(0 - 51, TRUE), y |-> Dbl(86, TRUE), intensity |-> 31],
          [x |-> Dbl(0 - 87, TRUE), y |-> Dbl(50, TRUE), intensity |-> 6],
          [x |-> Dbl(0 - 100, TRUE), y |-> Dbl(0 - 1, TRUE), intensity |-> 92],
          [x |-> Dbl(0 - 87, TRUE), y |-> Dbl(0 - 50, TRUE), intensity |-> 211],
          [x |-> Dbl(0 - 50, TRUE), y |-> Dbl(0 - 87, TRUE), intensity |-> 253],
          [x |-> Dbl(0, TRUE), y |-> Dbl(0 - 100, TRUE), intensity |-> 180],
          [x |-> Dbl(49, TRUE), y |-> Dbl(0 - 87, TRUE), intensity |-> 58],
          [x |-> Dbl(86, TRUE), y |-> Dbl(0 - 51, TRUE), intensity |-> 1]>>,
      pulse_size |-> 20,
      scale |-> [s |-> 0, m |-> 8388608, e |-> 0 - 23],
      alpha |-> 128,
      tint |-> [r |-> 128, g |-> 255, b |-> 128, a |-> 255]]

\* the same for time 1.5
ClockAt1500 ==
    [rect |-> <<
          [x |-> Dbl(146, TRUE), y |-> Dbl(102, TRUE), r |-> 254, g |-> 191, b |-> 245],
          [x |-> Dbl(0 - 85, TRUE), y |-> Dbl(135, TRUE), r |-> 204, g |-> 69, b |-> 152],
          [x |-> Dbl(0 - 199, TRUE), y |-> Dbl(0 - 19, TRUE), r |-> 83, g |-> 1, b |-> 36],
          [x |-> Dbl(0 - 39, TRUE), y |-> Dbl(0 - 148, TRUE), r |-> 3, g |-> 49, b |-> 4],
          [x |-> Dbl(174, TRUE), y |-> Dbl(0 - 73, TRUE), r |-> 38, g |-> 170, b |-> 86]>>,
      orb |-> <<
          [x |-> Dbl(12, TRUE), y |-> Dbl(179, TRUE),
           trail |-> <<
              [x |-> Dbl(12, TRUE), y |-> Dbl(179, TRUE)],
              [x |-> Dbl(30, TRUE), y |-> Dbl(177, TRUE)],
              [x |-> Dbl(48, TRUE), y |-> Dbl(173, TRUE)],
              [x |-> Dbl(65, TRUE), y |-> Dbl(167, TRUE)],
              [x |-> Dbl(81, TRUE), y |-> Dbl(160, TRUE)],
              [x |-> Dbl(97, TRUE), y |-> Dbl(151, TRUE)],
              [x |-> Dbl(111, TRUE), y |-> Dbl(140, TRUE)],
              [x |-> Dbl(125, TRUE), y |-> Dbl(129, TRUE)],
              [x |-> Dbl(137, TRUE), y |-> Dbl(115, TRUE)],
              [x |-> Dbl(148, TRUE), y |-> Dbl(101, TRUE)]>>],
          [x |-> Dbl(0 - 162, TRUE), y |-> Dbl(0 - 79, TRUE),
           trail |-> <<
              [x |-> Dbl(0 - 162, TRUE), y |-> Dbl(0 - 79, TRUE)],
              [x |-> Dbl(0 - 169, TRUE), y |-> Dbl(0 - 63, TRUE)],
              [x |-> Dbl(0 - 175, TRUE), y |-> Dbl(0 - 46, TRUE)],
              [x |-> Dbl(0 - 178, TRUE), y |-> Dbl(0 - 28, TRUE)],
              [x |-> Dbl(0 - 180, TRUE), y |-> Dbl(0 - 10, TRUE)],
              [x |-> Dbl(0 - 180, TRUE), y |-> Dbl(8, TRUE)],
              [x |-> Dbl(0 - 179, TRUE), y |-> Dbl(26, TRUE)],
              [x |-> Dbl(0 - 175, TRUE), y |-> Dbl(44, TRUE)],
              [x |-> Dbl(0 - 170, TRUE), y |-> Dbl(61, TRUE)],
              [x |-> Dbl(0 - 163, TRUE), y |-> Dbl(77, TRUE)]>>],
          [x |-> Dbl(149, TRUE), y |-> Dbl(0 - 101, TRUE),
           trail |-> <<
              [x |-> Dbl(149, TRUE), y |-> Dbl(0 - 101, TRUE)],
              [x |-> Dbl(138, TRUE), y |-> Dbl(0 - 116, TRUE)],
              [x |-> Dbl(126, TRUE), y |-> Dbl(0 - 129, TRUE)],
              [x |-> Dbl(112, TRUE), y |-> Dbl(0 - 141, TRUE)],
              [x |-> Dbl(98, TRUE), y |-> Dbl(0 - 151, TRUE)],
              [x |-> Dbl(82, TRUE), y |-> Dbl(0 - 160, TRUE)],
              [x |-> Dbl(66, TRUE), y |-> Dbl(0 - 168, TRUE)],
              [x |-> Dbl(49, TRUE), y |-> Dbl(0 - 174, TRUE)],
              [x |-> Dbl(31, TRUE), y |-> Dbl(0 - 178, TRUE)],
              [x |-> Dbl(13, TRUE), y |-> Dbl(0 - 180, TRUE)]>>]>>,
      ray |-> <<
          [x |-> Dbl(0 - 99, TRUE), y |-> Dbl(14, TRUE), intensity |-> 254],
          [x |-> Dbl(0 - 93, TRUE), y |-> Dbl(0 - 38, TRUE), intensity |-> 204],
          [x |-> Dbl(0 - 62, TRUE), y |-> Dbl(0 - 79, TRUE), intensity |-> 83],
          [x |-> Dbl(0 - 15, TRUE), y |-> Dbl(0 - 99, TRUE), intensity |-> 3],
          [x |-> Dbl(37, TRUE), y |-> Dbl(0 - 93, TRUE), intensity |-> 38],
          [x |-> Dbl(78, TRUE), y |-> Dbl(0 - 62, TRUE), intensity |-> 155],
          [x |-> Dbl(98, TRUE), y |-> Dbl(0 - 15, TRUE), intensity |-> 247],
          [x |-> Dbl(92, TRUE), y |-> Dbl(37, TRUE), intensity |-> 229],
          [x |-> Dbl(61, TRUE), y |-> Dbl(78, TRUE), intensity |-> 118],
          [x |-> Dbl(14, TRUE), y |-> Dbl(98, TRUE), intensity |-> 16],
          [x |-> Dbl(0 - 38, TRUE), y |-> Dbl(92, TRUE), intensity |-> 16],
          [x |-> Dbl(0 - 79, TRUE), y |-> Dbl(61, TRUE), intensity |-> 119]>>,
      pulse_size |-> 10,
      scale |-> [s |-> 0, m |-> 12572405, e |-> 0 - 23],
      alpha |-> 145,
      tint |-> [r |-> 254, g |-> 48, b |-> 145, a |-> 255]]

\* float time = (float)(clock() - start_time) / CLOCKS_PER_SEC: the frames
\* that start at 0 and at 1.5 seconds
FrameClocks == {ClockAt0, ClockAt1500}

\* the samples of several calls, one call after the other
RECURSIVE in_order(_)
in_order(parts) == IF parts = <<>> THEN <<>> ELSE Head(parts) \o in_order(Tail(parts))

\* a line of main, which is never longer than the 100 of a ray or the side
\* of the screen
frame_line(W, H, x1, y1, x2, y2, c) ==
    colored(draw_line_within(x1, y1, x2, y2, 101 + W + H).calls, c)

\* main.c:40-50: five translucent squares on an ellipse around the middle
frame_rects(W, H, clk) ==
    in_order([i \in 1..5 |->
        colored(draw_filled_rect_calls(int_of_sum(W \div 2, clk.rect[i].x) - 20,
                                       int_of_sum(H \div 2, clk.rect[i].y) - 20, 40, 40),
                color_make(clk.rect[i].r, clk.rect[i].g, clk.rect[i].b, 200))])

\* main.c:52-71: one of three discs with its ten fading trail discs drawn
\* first and its white outline last; i counts from 0
frame_orb(W, H, orb, i) ==
    LET r == IF i = 0 THEN 255 ELSE 50
        g == IF i = 1 THEN 255 ELSE 50
        b == IF i = 2 THEN 255 ELSE 50
        cx == int_of_sum(W \div 2, orb.x)
        cy == int_of_sum(H \div 2, orb.y)
    IN in_order([j \in 1..10 |->
           colored(draw_filled_circle_calls(int_of_sum(W \div 2, orb.trail[j].x),
                                            int_of_sum(H \div 2, orb.trail[j].y), 15),
                   color_make(r, g, b, 150 - (j - 1) * 15))])
       \o colored(draw_filled_circle_calls(cx, cy, 25), color_make(r, g, b, 255))
       \o colored(renderer_draw_circle(cx, cy, 27), color_make(255, 255, 255, 255))

\* main.c:73-82: twelve rays from the middle
frame_rays(W, H, clk) ==
    in_order([i \in 1..12 |->
        frame_line(W, H, W \div 2, H \div 2,
                   int_of_sum(W \div 2, clk.ray[i].x), int_of_sum(H \div 2, clk.ray[i].y),
                   color_make(clk.ray[i].intensity, clk.ray[i].intensity, 255, 180))])

\* main.c:84-89: a line down every 50th column, then one along every 50th row
frame_grid(W, H) ==
    in_order([k \in 1..((W + 49) \div 50) |->
        frame_line(W, H, 50 * (k - 1), 0, 50 * (k - 1), H, color_make(60, 60, 80, 100))])
    \o in_order([k \in 1..((H + 49) \div 50) |->
        frame_line(W, H, 0, 50 * (k - 1), W, 50 * (k - 1), color_make(60, 60, 80, 100))])

\* main.c:93-97: a square in each corner
frame_corners(W, H, size) ==
    colored(draw_filled_rect_calls(20, 20, size, size), color_make(255, 100, 100, 255))
    \o colored(draw_filled_rect_calls(W - 20 - size, 20, size, size),
               color_make(100, 255, 100, 255))
    \o colored(draw_filled_rect_calls(20, H - 20 - size, size, size),
               color_make(100, 100, 255, 255))
    \o colored(draw_filled_rect_calls(W - 20 - size, H - 20 - size, size, size),
               color_make(255, 255, 100, 255))

\* main.c:99-110: if (test_image): the image, a scaled copy and a tinted copy
frame_images(W, H, clk, img) ==
    IF img.null THEN <<>>
    ELSE renderer_draw_image(img, 50, 50)
         \o renderer_draw_image_ex(img, W - 200, 50, clk.scale, clk.alpha)
         \o renderer_apply_tint(img, 50, H - 200, clk.tint)

\* main.c:37-97: the renderer_draw_pixel calls of the shapes of one frame, in
\* order, for a screen of W x H (SCREEN_WIDTH x SCREEN_HEIGHT)
frame_shapes(W, H, clk) ==
    renderer_draw_gradient_rect(0, 0, W, H, color_make(40, 40, 80, 255),
                                color_make(20, 20, 40, 255), TRUE)
    \o frame_rects(W, H, clk)
    \o in_order([i \in 1..3 |-> frame_orb(W, H, clk.orb[i], i - 1)])
    \o frame_rays(W, H, clk)
    \o frame_grid(W, H)
    \o colored(draw_rect_calls(5, 5, W - 10, H - 10), color_make(150, 200, 255, 255))
    \o frame_corners(W, H, clk.pulse_size)

\* main.c:37-110: every renderer_draw_pixel call of one frame, in order
main_frame(W, H, clk, img) == frame_shapes(W, H, clk) \o frame_images(W, H, clk, img)

\* the calls that renderer_draw_pixel does not return from at its first line
\* (x and y within the screen), in order
on_screen(W, H, samples) ==
    SelectSeq(samples, LAMBDA sm : sm.x >= 0 /\ sm.x < W /\ sm.y >= 0 /\ sm.y < H)

\* main of src/main.c and of examples/06_textured_cube.c: init, load, the
\* render loop, free, cleanup
MainFiles == {NoFile, Example2x2}

\* color_make(20, 30, 50, 255), the color main clears each frame to
FrameClear == color_make(20, 30, 50, 255)

\* the calls of the shapes of a frame that reach the framebuffer of
\* renderer_init(&rend, SCREEN_WIDTH, SCREEN_HEIGHT), per clock
FrameDraws ==
    [clk \in FrameClocks |->
        on_screen(MaxWidth, MaxHeight, frame_shapes(MaxWidth, MaxHeight, clk))]

InitMain ==
    /\ ScreenStart("zero", {0}, {0}, {<<>>}, MainFiles)
    /\ Zeroed("main")

MainInit ==
    /\ pc = "main"
    /\ \E step \in InitSteps(build), contents \in InitialContents(MaxWidth * MaxHeight) :
        /\ DoInit(MaxWidth, MaxHeight, step, contents)
        /\ pc' = IF step = "none" THEN "load" ELSE "exit_1"
    /\ history' = <<"renderer_init">>

MainLoad ==
    /\ pc = "load"
    /\ LoadBmp([i \in 1..54 |-> Indeterminate], Indeterminate)
    /\ pc' = "test"
    /\ history' = Append(history, "image_load_bmp")
    /\ UNCHANGED <<handles, is_running, events>>

\* while (rend.is_running)
MainTest ==
    /\ pc = "test"
    /\ pc' = IF is_running THEN "handle_events" ELSE "free"
    /\ history' = IF is_running THEN <<>> ELSE history
    /\ UNCHANGED <<handles, is_running, events, width, height, framebuffer, op, args, aux,
                   recorder, loader>>

MainHandleEvents ==
    /\ pc = "handle_events"
    /\ DoHandleEvents
    /\ pc' = "clear"
    /\ history' = Append(history, "handle_events")

MainClear ==
    /\ pc = "clear"
    /\ \E m \in {renderer_clear(Mem, width, height, FrameClear)} :
        /\ framebuffer' = m.fb
        /\ wild' = m.wild
    /\ op' = "clear"
    /\ color' = FrameClear
    /\ clear_color' = FrameClear
    /\ painted' = [i \in DOMAIN painted |-> FrameClear]
    /\ opaque_only' = TRUE
    /\ pc' = "draws"
    /\ history' = Append(history, "clear")
    /\ UNCHANGED <<handles, is_running, events, width, height, args, aux, trace, before,
                   ncalls, loader>>

\* main.c:37-110: one frame drawn over the cleared screen; the calls outside
\* the screen leave it as it is
MainDraws ==
    /\ pc = "draws"
    /\ \E clk \in FrameClocks :
        \E done \in {FrameDraws[clk]
                        \o on_screen(width, height, frame_images(width, height, clk, image))} :
            \E m \in {paint_colors(Mem, width, height, done)} :
                /\ framebuffer' = m.fb
                /\ wild' = m.wild
                /\ painted' = [k \in DOMAIN painted |-> last_color(done, k, painted[k])]
                /\ opaque_only' = (opaque_only /\ \A k \in 1..Len(done) : done[k].color.a = 255)
    /\ op' = "frame"
    /\ color' = Unpainted
    /\ pc' = "present"
    /\ history' = Append(history, "draws")
    /\ UNCHANGED <<handles, is_running, events, width, height, args, aux, trace, before,
                   clear_color, ncalls, loader>>

MainPresent ==
    /\ pc = "present"
    /\ pc' = "sleep"
    /\ history' = Append(history, "present")
    /\ UNCHANGED <<handles, is_running, events, width, height, framebuffer, op, args, aux,
                   recorder, loader>>

MainSleep ==
    /\ pc = "sleep"
    /\ pc' = "test"
    /\ history' = Append(history, "sleep")
    /\ UNCHANGED <<handles, is_running, events, width, height, framebuffer, op, args, aux,
                   recorder, loader>>

\* if (test_image) image_free(test_image);
MainFree ==
    /\ pc = "free"
    /\ image' = NullImage
    /\ heap' = image_free(image, heap)
    /\ history' = IF image.null THEN history ELSE Append(history, "image_free")
    /\ pc' = "cleanup"
    /\ UNCHANGED <<handles, is_running, events, screen, op, args, aux, disk, open_files>>

MainCleanup ==
    /\ pc = "cleanup"
    /\ \E crash \in BOOLEAN :
        /\ DoCleanup(crash)
        /\ pc' = IF crash THEN "aborted" ELSE "exit_0"
    /\ history' = Append(history, "cleanup")

MainStep ==
    \/ MainInit
    \/ MainLoad
    \/ MainTest
    \/ MainHandleEvents
    \/ MainClear
    \/ MainDraws
    \/ MainPresent
    \/ MainSleep
    \/ MainFree
    \/ MainCleanup

NextMain == MainStep \/ Deliver

SpecMain == InitMain /\ [][NextMain]_vars

\* where main has returned or the process was ended
Halted == {"exit_0", "exit_1", "aborted"}

Positions ==
    {"main", "load", "test", "handle_events", "clear", "draws", "present", "sleep", "free",
     "cleanup"} \cup Halted

\* main goes on to its next statement: every step of main moves pc, nothing
\* else does, and no statement of main waits
Scheduled == pc \notin Halted /\ pc' \in Positions /\ pc' # pc

\* the process is scheduled: the statement main is at is executed
SpecMainFair == SpecMain /\ WF_pc(Scheduled)

\* one translucent draw_pixel over a framebuffer of known contents
BlendPixel ==
    /\ op = "init"
    /\ \E p \in BlendPositions, c \in BlendColors :
        Draw(TRUE, "pixel", p, c, <<p>>, NoAux)

InitBlend == Start(BlendContents(MaxWidth * MaxHeight))

NextBlend == BlendPixel

SpecBlend == InitBlend /\ [][NextBlend]_vars

\* ------------------------------------------------------------------ claims
Idx == 0..(width * height - 1)
InBounds(x, y) == x >= 0 /\ x < width /\ y >= 0 /\ y < height
IsDraw == op \notin {"init", "clear"}
XOf(i) == i % width
YOf(i) == i \div width

\* C1: a draw_pixel call outside [0,width) x [0,height) leaves every pixel as
\* it was; a draw call changes only pixels it passed in bounds to draw_pixel;
\* no call ever stores outside the width*height words of the framebuffer.
C1_OutOfBoundsDiscarded ==
    /\ wild = {}
    /\ DOMAIN framebuffer = Idx
    /\ (op = "pixel" /\ ~InBounds(args[1], args[2])) => framebuffer = before
    /\ IsDraw => \A i \in Idx : framebuffer[i] # before[i] => Covered(trace, i)

C1_Witness ==
    /\ op = "pixel" /\ args[1] >= width /\ args[2] < 0 /\ color.a = 255
    /\ before # <<>>

\* C2: an in-bounds draw_pixel with alpha 255 sets word y*width+x to
\* 0xFF<<24 | r<<16 | g<<8 | b whatever was there, and no other word changes.
C2_OpaqueWrite ==
    (op = "pixel" /\ InBounds(args[1], args[2]) /\ color.a = 255) =>
        \A i \in Idx :
            framebuffer[i] = IF i = args[2] * width + args[1]
                             THEN <<255, color.r, color.g, color.b>>
                             ELSE before[i]

C2_Witness ==
    /\ op = "pixel" /\ InBounds(args[1], args[2]) /\ color = Amber
    /\ before[args[2] * width + args[1]] \notin {<<0, 0, 0, 0>>, <<255, 250, 160, 20>>}

\* the channels of the color, in the order of the bytes of a word
SrcByte(ch) == <<color.a, color.r, color.g, color.b>>[ch]

\* the truncated value of src*a/255 + dst*(255-a)/255 in exact arithmetic
ExactBlend(src, dst, a) == (src * a + dst * (255 - a)) \div 255

Least(x, y) == IF x < y THEN x ELSE y

Most(x, y) == IF x < y THEN y ELSE x

IsBlend == op = "pixel" /\ InBounds(args[1], args[2]) /\ color.a < 255

Target == args[2] * width + args[1]

\* C3 (as amended): an in-bounds draw_pixel with a < 255 writes alpha 255 and,
\* for each of r,g,b, the truncated exact value of src*a/255 + dst*(255-a)/255
\* or one less than it (the single-precision evaluation can fall just short
\* of an integer), so a value from min(src,dst)-1 to max(src,dst); the result
\* is the same whatever the alpha byte of the destination was; {255,0,0,128}
\* over RGB {0,0,0} gives red within 1 of 128 and green = blue = 0.
C3_BlendWithinOne ==
    IsBlend =>
        LET old == before[Target]
            new == framebuffer[Target]
            bare == [fb |-> [before EXCEPT ![Target] = PackARGB(0, old[2], old[3], old[4])],
                     wild |-> {}]
        IN /\ new[1] = 255
           /\ \A ch \in 2..4 :
                LET exact == ExactBlend(SrcByte(ch), old[ch], color.a)
                IN /\ new[ch] \in {exact, exact - 1}
                   /\ new[ch] >= Least(SrcByte(ch), old[ch]) - 1
                   /\ new[ch] <= Most(SrcByte(ch), old[ch])
           /\ new = renderer_draw_pixel(bare, width, height, args[1], args[2], color).fb[Target]
           /\ (color = Glass /\ old[2] = 0 /\ old[3] = 0 /\ old[4] = 0) =>
                  (new[2] \in 127..129 /\ new[3] = 0 /\ new[4] = 0)

\* a blend whose red channel falls one short of the exact value, over a
\* destination whose alpha byte is not zero
C3_Witness ==
    /\ IsBlend /\ color.a = 65 /\ color.r = 3
    /\ before[Target] = <<77, 3, 51, 0>>
    /\ framebuffer[Target] = <<255, 2, 37, 65>>

\* C3 as stated: each channel is exactly the truncated value of
\* src*a/255 + dst*(255-a)/255 and lies between dst and src inclusive.
C3_ExactTruncatedBlend ==
    IsBlend =>
        LET old == before[Target]
            new == framebuffer[Target]
        IN /\ new[1] = 255
           /\ \A ch \in 2..4 :
                /\ new[ch] = ExactBlend(SrcByte(ch), old[ch], color.a)
                /\ new[ch] >= Least(SrcByte(ch), old[ch])
                /\ new[ch] <= Most(SrcByte(ch), old[ch])
           /\ (color = Glass /\ old[2] = 0 /\ old[3] = 0 /\ old[4] = 0) =>
                  (new[2] \in 127..129 /\ new[3] = 0 /\ new[4] = 0)

\* C4: renderer_clear stores the packed color in every one of the width*height
\* words, whatever they held, without blending even when the alpha is below 255.
C4_ClearOverwrites ==
    op = "clear" =>
        /\ wild = {}
        /\ \A i \in Idx : framebuffer[i] = <<color.a, color.r, color.g, color.b>>

C4_Witness == op = "clear" /\ color.a < 255 /\ color.r > 0

\* C5: after a clear to an opaque c0 and a filled rect (x,y,w,h) of an opaque
\* c, an in-bounds pixel holds c inside [x,x+w) x [y,y+h) and c0 outside it.
InRect(px, py) ==
    /\ args[1] <= px /\ px < args[1] + args[3]
    /\ args[2] <= py /\ py < args[2] + args[4]

C5_FilledRectAfterClear ==
    (op = "filled_rect" /\ color.a = 255 /\ clear_color.a = 255) =>
        \A i \in Idx :
            /\ InRect(XOf(i), YOf(i)) =>
                   framebuffer[i] = <<255, color.r, color.g, color.b>>
            /\ ~InRect(XOf(i), YOf(i)) =>
                   framebuffer[i] = <<255, clear_color.r, clear_color.g, clear_color.b>>
            /\ color # clear_color =>
                   (framebuffer[i] = <<255, color.r, color.g, color.b>>
                        <=> InRect(XOf(i), YOf(i)))

C5_Witness ==
    /\ op = "filled_rect" /\ color = Red /\ clear_color = Black
    /\ args = <<1, 1, 2, 2>>
    /\ framebuffer[width + 1] = <<255, 255, 0, 0>>
    /\ framebuffer[0] = <<255, 0, 0, 0>>

\* C6: painter's order: after a clear to an opaque color followed by calls
\* with opaque colors only, every pixel holds the color of the last call that
\* covered it, or the clear color when none did.
C6_PaintersOrder ==
    opaque_only =>
        \A i \in Idx :
            framebuffer[i] = <<255, painted[i].r, painted[i].g, painted[i].b>>

C6_Witness ==
    /\ opaque_only /\ ncalls >= 3 /\ IsDraw
    /\ \E i \in Idx : /\ Covered(trace, i)
                      /\ before[i] # framebuffer[i]
                      /\ before[i] # <<255, clear_color.r, clear_color.g, clear_color.b>>
    /\ \E j \in Idx : /\ ~Covered(trace, j)
                      /\ framebuffer[j] # <<255, clear_color.r, clear_color.g, clear_color.b>>

\* C7: renderer_draw_line terminates; the pixels it passes to draw_pixel
\* start at (x1,y1), end at (x2,y2), number max(|x2-x1|,|y2-y1|)+1, and two
\* consecutive ones differ by at most 1 in x and in y and never by 0 in both;
\* a zero-length line draws exactly the one pixel (x1,y1).
C7_LinePath ==
    op = "line" =>
        LET n == Len(trace) IN
        /\ aux.done
        /\ n = Most(Abs(args[3] - args[1]), Abs(args[4] - args[2])) + 1
        /\ trace[1] = <<args[1], args[2]>>
        /\ trace[n] = <<args[3], args[4]>>
        /\ \A k \in 1..(n - 1) :
            /\ Abs(trace[k + 1][1] - trace[k][1]) <= 1
            /\ Abs(trace[k + 1][2] - trace[k][2]) <= 1
            /\ trace[k + 1] # trace[k]
        /\ (args[1] = args[3] /\ args[2] = args[4]) => trace = <<<<args[1], args[2]>>>>

C7_Witness ==
    /\ op = "line" /\ args = <<MaxWidth - 1, 2, 0, 0>>
    /\ Len(trace) = MaxWidth
    /\ \E k \in 1..(Len(trace) - 1) : trace[k + 1][2] = trace[k][2]
    /\ \E k \in 1..(Len(trace) - 1) : trace[k + 1][2] # trace[k][2]

RECURSIVE GCD(_, _)
GCD(a, b) == IF b = 0 THEN a ELSE GCD(b, a % b)

PixelSet(calls) == {calls[k] : k \in 1..Len(calls)}

\* the calls of the same line drawn from its other end
Reversed == renderer_draw_line(args[3], args[4], args[1], args[2])

\* the framebuffer the reversed line leaves when drawn over the same contents
ReversedResult ==
    Paint([fb |-> before, wild |-> {}], width, height, Reversed.calls, color).fb

\* no point of the ideal line lies half way between two pixels: the line has
\* no length, or its longer extent divided by gcd(dx, dy) is odd
NoTies ==
    LET dx == Abs(args[3] - args[1])
        dy == Abs(args[4] - args[2])
    IN (dx = 0 /\ dy = 0) \/ (Most(dx, dy) \div GCD(dx, dy)) % 2 = 1

\* C8 (as amended): draw_line(x1,y1,x2,y2) and draw_line(x2,y2,x1,y1) pass the
\* same number of pixels to draw_pixel, and pass the same set of pixels
\* exactly when the line has no length or max(dx,dy)/gcd(dx,dy) is odd (so
\* for every horizontal, vertical and 45-degree line); in that case they
\* write exactly the same pixels.
C8_SymmetricWithoutTies ==
    op = "line" =>
        /\ Len(Reversed.calls) = Len(trace)
        /\ (PixelSet(Reversed.calls) = PixelSet(trace)) <=> NoTies
        /\ NoTies => ReversedResult = framebuffer

C8_Witness ==
    /\ op = "line" /\ args = <<0, 0, 3, 1>> /\ NoTies
    /\ PixelSet(trace) = {<<0, 0>>, <<1, 0>>, <<2, 1>>, <<3, 1>>}
    /\ framebuffer # before

\* C8 as stated: the two calls write exactly the same set of pixels.
C8_SymmetricInEndpointOrder ==
    op = "line" => ReversedResult = framebuffer

\* C9: renderer_draw_filled_triangle never divides by zero: with all three
\* vertices on one y it returns having passed no pixel and divided nothing,
\* and otherwise every scanline it processes divides by a total height and a
\* segment height that are both not zero.
C9_NoDivisionByZero ==
    op = "filled_triangle" =>
        /\ (args[2] = args[4] /\ args[4] = args[6]) =>
               (trace = <<>> /\ aux.divs = <<>> /\ framebuffer = before)
        /\ ~(args[2] = args[4] /\ args[4] = args[6]) => aux.divs # <<>>
        /\ \A k \in 1..Len(aux.divs) :
               aux.divs[k].total # 0 /\ aux.divs[k].segment # 0

\* exactly two vertices share a y, and scanlines were processed and drawn
C9_Witness ==
    /\ op = "filled_triangle"
    /\ args[2] = args[4] /\ args[4] # args[6]
    /\ Len(aux.divs) >= 3
    /\ framebuffer # before

Count(calls, p) == Cardinality({k \in 1..Len(calls) : calls[k] = p})

\* C10: renderer_draw_filled_circle passes (cx+dx, cy+dy) to draw_pixel
\* exactly once if |dx| <= r, |dy| <= r and dx*dx + dy*dy <= r*r, and never
\* otherwise; r = 0 draws only the center and r < 0 draws nothing.
C10_FilledCircleCoverage ==
    op = "filled_circle" =>
        LET cx == args[1]
            cy == args[2]
            r  == args[3]
            reach == (0 - (Abs(r) + 1))..(Abs(r) + 1)
            inside(dx, dy) == /\ Abs(dx) <= r /\ Abs(dy) <= r
                              /\ dx * dx + dy * dy <= r * r
        IN /\ \A dx \in reach, dy \in reach :
                Count(trace, <<cx + dx, cy + dy>>) = IF inside(dx, dy) THEN 1 ELSE 0
           /\ \A k \in 1..Len(trace) :
                trace[k][1] - cx \in reach /\ trace[k][2] - cy \in reach
           /\ r = 0 => trace = <<<<cx, cy>>>>
           /\ r < 0 => trace = <<>>

C10_Witness ==
    /\ op = "filled_circle" /\ args[3] = 2
    /\ Len(trace) = 13
    /\ Count(trace, <<args[1] + 2, args[2]>>) = 1
    /\ Count(trace, <<args[1] + 2, args[2] + 1>>) = 0

\* the pixel (px, py) lies on one of the four edges of the rectangle args
OnBorder(px, py) ==
    /\ InRect(px, py)
    /\ \/ py = args[2] \/ py = args[2] + args[4] - 1
       \/ px = args[1] \/ px = args[1] + args[3] - 1

\* the framebuffer renderer_draw_filled_rect leaves for the same arguments
FilledResult ==
    Paint([fb |-> before, wild |-> {}], width, height,
          draw_filled_rect_calls(args[1], args[2], args[3], args[4]), color).fb

\* C11: for w >= 1 and h >= 1 an opaque renderer_draw_rect sets exactly the
\* in-bounds pixels of rows y, y+h-1 and columns x, x+w-1 of the rectangle
\* and leaves the interior and the outside as they were, whereas
\* renderer_draw_filled_rect sets every in-bounds pixel of the rectangle.
C11_RectOutline ==
    (op = "rect" /\ args[3] >= 1 /\ args[4] >= 1 /\ color.a = 255) =>
        \A i \in Idx :
            /\ framebuffer[i] = IF OnBorder(XOf(i), YOf(i))
                                THEN <<255, color.r, color.g, color.b>>
                                ELSE before[i]
            /\ InRect(XOf(i), YOf(i)) =>
                   FilledResult[i] = <<255, color.r, color.g, color.b>>
            /\ ~InRect(XOf(i), YOf(i)) => FilledResult[i] = before[i]

\* a 3 x 3 outline whose interior pixel keeps the clear color
C11_Witness ==
    /\ op = "rect" /\ args = <<0, 0, 3, 3>> /\ color = Red /\ clear_color = Black
    /\ framebuffer[width + 1] = <<255, 0, 0, 0>>
    /\ framebuffer[1] = <<255, 255, 0, 0>>
    /\ framebuffer[2 * width + 2] = <<255, 255, 0, 0>>
    /\ FilledResult[width + 1] = <<255, 255, 0, 0>>

\* C12: for thickness >= 1 renderer_draw_thick_line calls renderer_draw_line
\* exactly thickness times for a line with two different endpoints, and for
\* a zero-length line calls it not at all and writes no pixel.
C12_ThicknessCopies ==
    (op = "thick_line" /\ args[5] >= 1) =>
        IF args[1] = args[3] /\ args[2] = args[4]
        THEN aux.lines = <<>> /\ trace = <<>> /\ framebuffer = before
        ELSE Len(aux.lines) = args[5]

\* C13: every sample of renderer_draw_textured_triangle reads a texel with
\* 0 <= tex_x < width and 0 <= tex_y < height, whatever the UV values; the
\* index is the truncated u * width (v * height) reduced modulo the size, so
\* coordinates outside [0,1] wrap and u = 1 reads column 0; the texel's color
\* is what draw_pixel gets; with a NULL texture nothing is drawn.
C13_TexelInsideImage ==
    op = "textured_triangle" =>
        LET texture == args[4] IN
        /\ texture.null => (aux.samples = <<>> /\ framebuffer = before)
        /\ \A k \in 1..Len(aux.samples) :
            LET sm == aux.samples[k]
                word == texture.pixels[sm.tex_y * texture.width + sm.tex_x]
            IN /\ sm.tex_x \in 0..(texture.width - 1)
               /\ sm.tex_y \in 0..(texture.height - 1)
               /\ sm.tex_x = F32ToInt(F32Mul(sm.u, F32FromInt(texture.width))) % texture.width
               /\ sm.tex_y = F32ToInt(F32Mul(sm.v, F32FromInt(texture.height))) % texture.height
               /\ sm.u = Quarter(4) => sm.tex_x = 0
               /\ sm.color = color_make(word[2], word[3], word[4], word[1])

\* samples with u = 1, with u < 0, with v > 1 and with v < 0 of the 2 x 3
\* texture, drawn into the framebuffer
C13_Witness ==
    /\ op = "textured_triangle" /\ args[4] = Checker
    /\ \E k \in 1..Len(aux.samples) :
           aux.samples[k].u = Quarter(4) /\ aux.samples[k].tex_x = 0
    /\ \E k \in 1..Len(aux.samples) :
           aux.samples[k].u.s = 1 /\ aux.samples[k].tex_x = 1
    /\ \E k \in 1..Len(aux.samples) :
           aux.samples[k].v.s = 1 /\ aux.samples[k].tex_y > 0
    /\ \E k \in 1..Len(aux.samples) :
           F32ToInt(aux.samples[k].v) >= 1 /\ aux.samples[k].v # Quarter(4)
    /\ framebuffer # before

\* the file starts with 'B','M' and its bits-per-pixel field is 24 or 32
HasBmpHeader(file) ==
    /\ file.exists
    /\ Len(file.bytes) >= 30
    /\ file.bytes[1] = 66
    /\ file.bytes[2] = 77
    /\ read_short(file.bytes, 28) \in {24, 32}

\* C14: image_load_bmp returns NULL for every file that does not start with
\* 'B','M' or whose bits-per-pixel field is neither 24 nor 32, and for a file
\* that cannot be opened; whenever it returns NULL nothing stays allocated
\* and no file stays open.
C14_RejectsNonBmp ==
    (op = "load_bmp" /\ ~aux.fault) =>
        /\ ~HasBmpHeader(args[1]) => image.null
        /\ image.null => (heap = {} /\ open_files = 0)

\* the color image_load_bmp makes of the bytes at an offset of the file
FilePixel(bytes, at, bits_per_pixel) ==
    <<IF bits_per_pixel = 32 THEN bytes[at + 4] ELSE 255, bytes[at + 3], bytes[at + 2],
      bytes[at + 1]>>

\* C15: a loaded image has the header's width and the absolute value of the
\* header's height H; the k-th row stored in the file is image row H-1-k
\* when H is positive and image row k when H is negative; the 2x2 24-bit
\* bottom-up file with two padding bytes per row gives blue, green on the
\* top row and red, white on the bottom row.
C15_TopToBottom ==
    (op = "load_bmp" /\ ~image.null) =>
        LET bytes == args[1].bytes
            W == read_int(aux.header, 18)
            H == read_int(aux.header, 22)
            depth == read_short(aux.header, 28)
            stride == 4 * ((depth * W + 31) \div 32)
        IN /\ image.width = W
           /\ image.height = Abs(H)
           /\ DOMAIN image.pixels = 0..(W * Abs(H) - 1)
           /\ \A k \in 0..(Abs(H) - 1), x \in 0..(W - 1) :
                54 + (k + 1) * stride <= Len(bytes) =>
                    image.pixels[(IF H > 0 THEN H - 1 - k ELSE k) * W + x]
                        = FilePixel(bytes, 54 + k * stride + x * (depth \div 8), depth)
           /\ args[1] = Example2x2 =>
                /\ image.width = 2 /\ image.height = 2
                /\ image.pixels[0] = <<255, 0, 0, 255>>
                /\ image.pixels[1] = <<255, 0, 255, 0>>
                /\ image.pixels[2] = <<255, 255, 0, 0>>
                /\ image.pixels[3] = <<255, 255, 255, 255>>

C15_Witness ==
    /\ op = "load_bmp"
    /\ args[1] = Example2x2
    /\ ~image.null
    /\ image.pixels[0] = <<255, 0, 0, 255>>
    /\ image.pixels[3] = <<255, 255, 255, 255>>

\* C16: loading the file write_bmp made of an RGB grid gives an image of
\* the grid's width and height whose pixel (x, y) has the grid's R, G, B
\* and alpha 255, for rows with 0, 1, 2 and 3 padding bytes.
C16_RoundTrip ==
    op = "load_bmp" =>
        \A g \in RgbGrids :
            (disk.exists /\ disk.bytes = write_bmp(g)) =>
                /\ ~image.null
                /\ image.width = g.width
                /\ image.height = g.height
                /\ \A x \in 0..(g.width - 1), y \in 0..(g.height - 1) :
                    LET idx == (y * g.width + x) * 3
                    IN image.pixels[y * g.width + x]
                        = <<255, g.pixels[idx], g.pixels[idx + 1], g.pixels[idx + 2]>>

C16_Witness ==
    /\ op = "load_bmp"
    /\ disk.exists
    /\ disk.bytes = write_bmp(RgbGrid(3, 2, 100))
    /\ image.width = 3
    /\ image.height = 2
    /\ image.pixels[5] = <<255, RgbGrid(3, 2, 100).pixels[15], RgbGrid(3, 2, 100).pixels[16],
                           RgbGrid(3, 2, 100).pixels[17]>>

\* the characters before the terminator
TextLen(text) == CHOOSE n \in 0..(Len(text) - 1) : text[n + 1] = 0 /\ \A m \in 1..n : text[m] # 0

\* the newlines before character i, and the characters between the last of
\* them and character i
LineOf(text, i) == Cardinality({m \in 1..(i - 1) : text[m] = 10})

ColumnOf(text, i) ==
    LET breaks == {0} \cup {m \in 1..(i - 1) : text[m] = 10}
    IN i - 1 - (CHOOSE m \in breaks : \A o \in breaks : o <= m)

\* C17: renderer_draw_text meets the k-th character of the j-th line with
\* the pen at (x0 + 8*scale*k, y0 + 8*scale*j), wherever that is; a newline
\* passes nothing to draw_pixel, puts the pen back to x0 and moves it down by
\* 8*scale; any other character moves the pen right by 8*scale, leaves y,
\* and draws inside its 8*scale by 8*scale cell.
C17_PenAdvance ==
    op = "text" =>
        LET text == args[1]
            x0 == args[2]
            y0 == args[3]
            scale == args[4]
        IN /\ Len(aux.cells) = TextLen(text)
           /\ trace = cells_calls(aux.cells)
           /\ \A i \in 1..Len(aux.cells) :
                LET cell == aux.cells[i] IN
                /\ cell.byte = text[i]
                /\ cell.x = x0 + 8 * scale * ColumnOf(text, i)
                /\ cell.y = y0 + 8 * scale * LineOf(text, i)
                /\ IF text[i] = 10
                   THEN /\ cell.calls = <<>>
                        /\ cell.nx = x0
                        /\ cell.ny = cell.y + 8 * scale
                   ELSE /\ cell.nx = cell.x + 8 * scale
                        /\ cell.ny = cell.y
                        /\ \A k \in 1..Len(cell.calls) :
                            /\ cell.calls[k][1] \in cell.x..(cell.x + 8 * scale - 1)
                            /\ cell.calls[k][2] \in cell.y..(cell.y + 8 * scale - 1)

C17_Witness ==
    /\ op = "text"
    /\ args = <<<<65, 10, 33, 0>>, 0 - 3, 0 - 9, 2>>
    /\ aux.cells[1].nx = 13
    /\ aux.cells[3].x = 0 - 3
    /\ aux.cells[3].y = 7
    /\ framebuffer # before

\* the pixels of the scale x scale blocks of the set bits of a glyph
GlyphBlocks(ch, x, y, scale) ==
    {<<x + col * scale + sx, y + row * scale + sy>> :
        <<row, col, sx, sy>> \in
            {q \in (0..7) \X (0..7) \X (0..(scale - 1)) \X (0..(scale - 1)) :
                (font_data[ch + 1][q[1] + 1] \div (2 ^ q[2])) % 2 = 1}}

SetBits(ch) ==
    Cardinality({q \in (0..7) \X (0..7) : (font_data[ch + 1][q[1] + 1] \div (2 ^ q[2])) % 2 = 1})

\* C18: renderer_draw_text selects a glyph in 0..127 for every byte: the
\* byte itself below 128 and the blank glyph 0 from 128 on, so that such a
\* character passes nothing to draw_pixel and still moves the pen by
\* 8*scale; of a glyph it passes to draw_pixel, once each, exactly the
\* pixels of the scale x scale blocks at (x + col*scale, y + row*scale) of
\* the bits col set in the row bytes.
C18_GlyphBlocks ==
    op = "text" =>
        /\ \A row \in 1..8 : font_data[1][row] = 0
        /\ \A i \in 1..Len(aux.cells) :
            LET cell == aux.cells[i]
                scale == args[4]
            IN cell.byte # 10 =>
                /\ cell.glyph \in 0..127
                /\ cell.glyph = IF cell.byte >= 128 THEN 0 ELSE cell.byte
                /\ cell.byte >= 128 =>
                    (cell.calls = <<>> /\ cell.nx = cell.x + 8 * scale /\ cell.ny = cell.y)
                /\ PixelSet(cell.calls) = GlyphBlocks(cell.glyph, cell.x, cell.y, scale)
                /\ Len(cell.calls) = scale * scale * SetBits(cell.glyph)

C18_Witness ==
    /\ op = "text"
    /\ args = <<<<65, 200, 33, 0>>, 0 - 3, 0 - 9, 2>>
    /\ aux.cells[2].glyph = 0
    /\ aux.cells[2].calls = <<>>
    /\ aux.cells[3].x = 29
    /\ <<0 - 3 + 2 * 2 + 1, 0 - 9 + 1>> \in PixelSet(aux.cells[1].calls)
    /\ framebuffer # before

\* C19: mat4_mul(mat4_identity(), M) and mat4_mul(M, mat4_identity()) are M,
\* entry by entry.
C19_IdentityIsUnit ==
    op = "mat4_mul" =>
        /\ args[1] = mat4_identity =>
            \A i \in 1..4, j \in 1..4 : aux.result[i][j] = args[2][i][j]
        /\ args[2] = mat4_identity =>
            \A i \in 1..4, j \in 1..4 : aux.result[i][j] = args[1][i][j]

C19_Witness ==
    /\ op = "mat4_mul"
    /\ args[1] = Dense(1)
    /\ args[2] = mat4_identity
    /\ aux.result = Dense(1)
    /\ aux.result # mat4_identity

\* C20: mat4_mul_vec3(mat4_mul(A, B), p, 1) is
\* mat4_mul_vec3(A, mat4_mul_vec3(B, p, 1), 1): B acts on the point first
\* and A second.
C20_RightToLeft ==
    op = "mat4_mul_vec3" =>
        aux.result = mat4_mul_vec3(args[1], mat4_mul_vec3(args[2], args[3], F32FromInt(1)),
                                   F32FromInt(1))


\* C21: renderer_project_point of the origin under mat4_identity() gives
\* (width / 2, height / 2) in integer halves and depth 0, for every renderer
\* size.
C21_OriginEverySize ==
    (op = "project_point" /\ args = <<vec3_make(F32Zero, F32Zero, F32Zero), mat4_identity>>) =>
        /\ aux.result.x = width \div 2
        /\ aux.result.y = height \div 2
        /\ aux.result.depth = F32Zero

\* C21, for sizes that convert to float unchanged: renderer_project_point of
\* the origin under mat4_identity() gives (width / 2, height / 2) in integer
\* halves and depth 0, for every renderer whose width and height are at most
\* 2^24.
C21_OriginToCentre ==
    (/\ op = "project_point"
     /\ args = <<vec3_make(F32Zero, F32Zero, F32Zero), mat4_identity>>
     /\ width <= ExactInt
     /\ height <= ExactInt) =>
        /\ aux.result.x = width \div 2
        /\ aux.result.y = height \div 2
        /\ aux.result.depth = F32Zero

C21_Witness ==
    /\ op = "project_point"
    /\ args = <<vec3_make(F32Zero, F32Zero, F32Zero), mat4_identity>>
    /\ width = 799
    /\ height = MaxHeight
    /\ aux.result.x = 399
    /\ aux.result.y = MaxHeight \div 2
    /\ aux.result.depth = F32Zero

\* an Escape key press or a request to close the window
IsQuit(e) ==
    \/ e.type \in {"KeyPress", "WM_KEYDOWN"} /\ e.key = "Escape"
    \/ e.type \in {"ClientMessage", "WM_CLOSE"}

HasQuit(queue) == \E k \in 1..Len(queue) : IsQuit(queue[k])

\* C22: renderer_cleanup on a zero-initialised Renderer whose renderer_init
\* returned false, at whichever step it failed, releases exactly the
\* resources init acquired and still holds, and releases none of them twice.
C22_CleanupAfterFailedInit ==
    [][(RendererCleanup /\ op = "init_failed" /\ rend0 = ZeroRenderer) =>
          /\ ~crashed'
          /\ Released(aux'.released) = live
          /\ live' = {}
          /\ \A f \in Fields : releases'[f] <= 1]_vars

\* C23: renderer_init sets is_running to true; renderer_handle_events never
\* waits, takes every pending event and sets is_running to false if one of
\* them is an Escape key press or a close request; only renderer_init turns
\* is_running from false to true.
C23_RunningFlag ==
    /\ [][RendererInit => is_running']_vars
    /\ [](pc = "lib" /\ Usable => ENABLED RendererHandleEvents)
    /\ [][RendererHandleEvents =>
            /\ events' = <<>>
            /\ HasQuit(events) => ~is_running'
            /\ ~HasQuit(events) => is_running' = is_running]_vars
    /\ [][(~is_running /\ is_running') => RendererInit]_vars

C23_Witness ==
    /\ ~is_running
    /\ Usable
    /\ op = "pixel"
    /\ history = <<"present">>
    /\ Len(events) = MaxEvents
    /\ HasQuit(events)

\* C28: a second renderer_cleanup right after the first, on a Renderer that
\* was initialised successfully, releases nothing: every resource was
\* released exactly once.
C28_CleanupTwice ==
    [][(/\ RendererCleanup
        /\ history = <<"cleanup">>
        /\ cleanups = 1
        /\ live = {}
        /\ \A f \in Resources(build) : releases[f] = 1) =>
          /\ ~crashed'
          /\ aux'.released = <<>>
          /\ releases' = releases]_vars

\* C24: when main returns, on the early return after a failed renderer_init
\* as on the normal one, everything renderer_init or image_load_bmp acquired
\* has been released.
C24_ReleasedOnEveryReturn ==
    pc \in {"exit_0", "exit_1"} => (live = {} /\ heap = {} /\ open_files = 0)

\* the library calls of the frame in which is_running was found false
LastFrame == <<"handle_events", "clear", "draws", "present", "sleep">>

\* C26: a frame whose handle_events took a close or Escape event is still
\* completed, with one present, and the loop then exits; after the loop
\* image_free is called exactly when an image was loaded, renderer_cleanup
\* once, and nothing is drawn, presented or polled after it; once such an
\* event is queued main eventually returns.
C26_LoopExit ==
    /\ [][(pc' # pc) <=> ~Deliver]_vars
    /\ [][(MainHandleEvents /\ HasQuit(events)) => ~is_running']_vars
    /\ []((pc = "test" /\ ~is_running) => history = LastFrame)
    /\ [][(pc = "test" /\ ~is_running /\ pc' # pc) => pc' = "free"]_vars
    /\ [][MainFree => (history' = IF image.null THEN LastFrame
                                  ELSE Append(LastFrame, "image_free"))]_vars
    /\ [][MainCleanup => (cleanups = 0 /\ ~crashed' /\ pc' = "exit_0")]_vars
    /\ [](pc = "exit_0" =>
            /\ cleanups = 1
            /\ history \in {Append(LastFrame, "cleanup"),
                            LastFrame \o <<"image_free", "cleanup">>}
            /\ ~ENABLED NextMain)
    /\ (HasQuit(events) ~> pc = "exit_0")

C26_Witness ==
    /\ pc = "exit_0"
    /\ history = LastFrame \o <<"image_free", "cleanup">>
    /\ ~is_running
    /\ live = {}
    /\ op = "cleanup"
    /\ disk = Example2x2

\* the vertices of the recorded triangle in the order the three swaps leave
Sorted == sort_by_y(<<<<args[1], args[2]>>, <<args[3], args[4]>>, <<args[5], args[6]>>>>)

\* x0 + (x1 - x0) * k / n in exact arithmetic, truncated toward zero
ExactLerp(x0, x1, k, n) == CDiv(x0 * n + (x1 - x0) * k, n)

\* x0 + (x1 - x0) * ((float)k / n) evaluated in single precision, truncated
FloatLerp(x0, x1, k, n) == lerp_int(x0, x1, F32Div(F32FromInt(k), F32FromInt(n)))

\* the scanlines y1..y3 each hold exactly the span between the interpolation
\* along v1->v3 and the one along v1->v2 (y <= y2, y2 > y1) or v2->v3, every
\* pixel passed once; the vertices are drawn and nothing leaves their
\* bounding box
Scanlines(Lerp(_, _, _, _)) ==
    LET x1 == Sorted[1][1]  y1 == Sorted[1][2]
        x2 == Sorted[2][1]  y2 == Sorted[2][2]
        x3 == Sorted[3][1]  y3 == Sorted[3][2]
        xa(y) == Lerp(x1, x3, y - y1, y3 - y1)
        xb(y) == IF y <= y2 /\ y2 > y1 THEN Lerp(x1, x2, y - y1, y2 - y1)
                 ELSE Lerp(x2, x3, y - y2, y3 - y2)
    IN y3 > y1 =>
        /\ \A k \in 1..Len(trace) :
            /\ trace[k][2] \in y1..y3
            /\ trace[k][1] >= Least(xa(trace[k][2]), xb(trace[k][2]))
            /\ trace[k][1] <= Most(xa(trace[k][2]), xb(trace[k][2]))
            /\ trace[k][1] >= Least(x1, Least(x2, x3))
            /\ trace[k][1] <= Most(x1, Most(x2, x3))
        /\ \A y \in y1..y3 :
            \A x \in Least(xa(y), xb(y))..Most(xa(y), xb(y)) : Count(trace, <<x, y>>) = 1
        /\ {Sorted[1], Sorted[2], Sorted[3]} \subseteq PixelSet(trace)

\* C25: on every scanline from y1 to y3 renderer_draw_filled_triangle passes
\* exactly the span between the truncated linear interpolation along v1->v3
\* and the one along v1->v2 or v2->v3; each vertex is drawn and every pixel
\* lies in the bounding box of the vertices.
C25_ExactSpans ==
    op = "filled_triangle" => Scanlines(ExactLerp)

\* C25, with the interpolation as the code evaluates it and for coordinates
\* whose differences are floats: the spans lie between the truncated
\* single-precision values of x1 + (x3 - x1) * alpha and of the short edge's
\* interpolation; each vertex is drawn and every pixel lies in the bounding
\* box.
C25_FloatSpans ==
    (/\ op = "filled_triangle"
     /\ \A k \in 1..6 : Abs(args[k]) <= HalfExactInt) => Scanlines(FloatLerp)

\* the long edge from (25, 0) to (0, 5) is at x = 10 on scanline 3 and the
\* span starts at 9
C25_Witness ==
    /\ op = "filled_triangle"
    /\ args = <<25, 0, 25, 5, 0, 5>>
    /\ ExactLerp(25, 0, 3, 5) = 10
    /\ Count(trace, <<9, 3>>) = 1
    /\ Count(trace, <<8, 3>>) = 0
    /\ Count(trace, <<25, 3>>) = 1
    /\ <<0, 5>> \in PixelSet(trace)

\* C27: after a renderer_clear to a color with alpha 255 every pixel keeps
\* alpha byte 255 through any later draw calls, opaque or translucent, alpha 0
\* included; and a draw_pixel with alpha 0 leaves the pixel's R, G and B as
\* they were.
C27_AlphaStaysOpaque ==
    /\ clear_color.a = 255 => \A i \in DOMAIN framebuffer : ByteAt(framebuffer[i], 24) = 255
    /\ (op = "pixel" /\ color.a = 0 /\ InBounds(args[1], args[2])) =>
        /\ ByteAt(framebuffer[Target], 16) = ByteAt(before[Target], 16)
        /\ ByteAt(framebuffer[Target], 8) = ByteAt(before[Target], 8)
        /\ ByteAt(framebuffer[Target], 0) = ByteAt(before[Target], 0)

\* an opaque clear, a translucent rectangle, then a pixel of alpha 0 on it
C27_Witness ==
    /\ clear_color.a = 255
    /\ ncalls = MaxCalls
    /\ op = "pixel"
    /\ color.a = 0
    /\ InBounds(args[1], args[2])
    /\ painted[Target] = color
    /\ \E i \in DOMAIN painted : painted[i].a = 128
    /\ ByteAt(framebuffer[Target], 16) = 128
    /\ framebuffer = before

\* C29: renderer_draw_rect(x,y,w,h,c) passes to draw_pixel only pixels (px,py)
\* with x <= px < x+w and y <= py < y+h, and so writes nothing when w <= 0 or
\* h <= 0, exactly as renderer_draw_filled_rect does.
C29_RectInsideBox ==
    op = "rect" =>
        /\ \A k \in DOMAIN trace : InRect(trace[k][1], trace[k][2])
        /\ (args[3] <= 0 \/ args[4] <= 0) =>
               /\ trace = <<>>
               /\ framebuffer = before
               /\ FilledResult = before

\* the vertices of the recorded filled triangle
Vertex(n) == <<args[2 * n - 1], args[2 * n]>>
\* the five orders other than the one recorded in args (whose calls are trace)
OtherOrders == {<<1, 3, 2>>, <<2, 1, 3>>, <<2, 3, 1>>, <<3, 1, 2>>, <<3, 2, 1>>}
WrittenBy(calls) == {p \in PixelSet(calls) : InBounds(p[1], p[2])}

\* C30: the pixels renderer_draw_filled_triangle writes are the same for all
\* six orders in which the same three integer vertices can be passed, vertices
\* that share a y coordinate included.
C30_VertexOrder ==
    op = "filled_triangle" =>
        \A o \in OtherOrders :
            PixelSet(renderer_draw_filled_triangle(Vertex(o[1]), Vertex(o[2]), Vertex(o[3])).calls)
                = PixelSet(trace)

\* a flat-bottomed triangle passed with its apex last: the swaps reorder it,
\* and it covers pixels of the framebuffer
C30_Witness ==
    /\ op = "filled_triangle"
    /\ args[2] = args[4] /\ args[6] < args[2] /\ args[1] # args[3]
    /\ Sorted # <<Vertex(1), Vertex(2), Vertex(3)>>
    /\ Cardinality(WrittenBy(trace)) >= 3
    /\ framebuffer # before

====
